---------------------------- MODULE Spec2Model ----------------------------
(***************************************************************************)
(* A model of the ValueSet-OID extraction and VSAC retrieval core of       *)
(* mercurius-mcp:                                                          *)
(*   - src/src/utils/vsacErrorHandler.js   handleVsacError, guidance       *)
(*   - src/src/services/vsacService.js     VSACService (cache, retrieval,  *)
(*                                         normalizer, batch retrieval)    *)
(*   - src/src/mcp/resources/config.js     extractValueSetIdentifiersFromCQL*)
(*                                                                         *)
(* JavaScript strings are TLA+ strings; "" stands for a falsy string value *)
(* (null, undefined and '' take the same branch wherever the code tests    *)
(* them).  A call that throws is the record [threw |-> TRUE, error |-> e], *)
(* one that returns is [threw |-> FALSE, value |-> v].                     *)
(***************************************************************************)
EXTENDS Integers, Sequences, FiniteSets, TLC

VARIABLES
    cache,      \* VSACService.cache: cache key -> parsed value set
    call,       \* the retrieveValueSet call of the client now awaiting axios.get, or NoCall
    last,       \* the client's most recently settled retrieveValueSet call, or NoCall
    nCalls,     \* retrieveValueSet calls the client has made
    netCount,   \* network requests issued (axios.get calls) by the client
    stats,      \* the value getCacheStats returned last
    batch,      \* the retrieveMultipleValueSets call: its position, window and results
    errIn,      \* the error caught by retrieveValueSet's catch block
    errOut,     \* what the catch block did with it
    cql,        \* the text handed to extractValueSetIdentifiersFromCQL
    decls,      \* the declarations the text was written from
    extracted,  \* what extractValueSetIdentifiersFromCQL returned
    oidList,    \* the value handed to validateExtractedOids
    validOids,  \* what validateExtractedOids returned
    report,     \* the validation report built from an extraction, and by whom
    payload,    \* the response body handed to parseVsacResponse
    parsedOut,  \* what parseVsacResponse did with it
    purposeIn, \* the Purpose text handed to parsePurposeField
    segments,   \* the labeled segments the text was written from
    purposeOut  \* what parsePurposeField returned

vars == <<cache, call, last, nCalls, netCount, stats, batch,
          errIn, errOut, cql, decls, extracted, oidList, validOids, report,
          payload, parsedOut, purposeIn, segments, purposeOut>>

serviceVars == <<cache, call, last, nCalls, netCount, stats>>
errVars     == <<errIn, errOut>>
extractVars == <<cql, decls, extracted, oidList, validOids, report>>
parseVars   == <<payload, parsedOut, purposeIn, segments, purposeOut>>

None == [none |-> TRUE]

(***************************************************************************)
(* Strings                                                                 *)
(***************************************************************************)

\* String.prototype.includes
Includes(s, sub) ==
    \E i \in 1..(Len(s) - Len(sub) + 1) : SubSeq(s, i, i + Len(sub) - 1) = sub

\* the i-th character of s, as a string of length 1 ("" outside s)
CharAt(s, i) == IF i >= 1 /\ i <= Len(s) THEN SubSeq(s, i, i) ELSE ""

Threw(e)    == [threw |-> TRUE, error |-> e]
Returned(v) == [threw |-> FALSE, value |-> v]

(***************************************************************************)
(* src/src/utils/vsacErrorHandler.js                                       *)
(***************************************************************************)

\* new VSACError(message, code, statusCode = null); statusCode 0 stands for null
VSACError(message, code, statusCode) ==
    [name |-> "VSACError", message |-> message, code |-> code, statusCode |-> statusCode]

\* The errors the try block of retrieveValueSet can hand to its catch block.
\* response: the request was answered with a status outside 2xx (axios sets
\* error.response); code: error.code ("" when unset).
AxiosResponseError(status, data) ==
    [response |-> TRUE, status |-> status, data |-> data, code |-> "ERR_BAD_RESPONSE",
     message |-> "Request failed with status code " \o ToString(status)]

LocalError(code, message) ==
    [response |-> FALSE, status |-> 0, data |-> "", code |-> code, message |-> message]

\* the switch of handleVsacError on error.response.status
StatusSwitch(error, valueSetId) ==
    LET status == error.status
        data   == error.data
    IN  CASE status = 401 ->
               VSACError("VSAC authentication failed. Check your UMLS username and password.",
                         "AUTH_FAILED", 401)
          [] status = 403 ->
               VSACError("VSAC access forbidden. Ensure your UMLS account has VSAC access enabled.",
                         "ACCESS_FORBIDDEN", 403)
          [] status = 404 ->
               VSACError("Value set not found: " \o valueSetId \o ". Verify the OID is correct.",
                         "VALUESET_NOT_FOUND", 404)
          [] status = 429 ->
               VSACError("VSAC rate limit exceeded. Please wait before retrying.",
                         "RATE_LIMIT", 429)
          [] status \in {500, 502, 503} ->
               VSACError("VSAC service temporarily unavailable. Please try again later.",
                         "SERVICE_UNAVAILABLE", status)
          [] OTHER ->
               VSACError("VSAC API error (" \o ToString(status) \o "): "
                            \o (IF data # "" THEN data ELSE error.message),
                         "API_ERROR", status)

\* handleVsacError without its generic fallback: an unrecognised error falls
\* off the end of the function, which then returns undefined
HandleVsacErrorNoFallback(error, valueSetId) ==
    IF error.response THEN Threw(StatusSwitch(error, valueSetId))
    ELSE IF error.code \in {"ENOTFOUND", "ECONNREFUSED"}
    THEN Threw(VSACError("Unable to connect to VSAC. Check your internet connection.",
                         "NETWORK_ERROR", 0))
    ELSE IF error.code = "ECONNABORTED" \/ Includes(error.message, "timeout")
    THEN Threw(VSACError("VSAC request timed out. The service may be slow, try again.",
                         "TIMEOUT", 0))
    ELSE Returned("undefined")

\* handleVsacError whose switch treats every 5xx status alike
HandleVsacErrorAll5xx(error, valueSetId) ==
    IF error.response /\ error.status \in 500..599
    THEN Threw(VSACError("VSAC service temporarily unavailable. Please try again later.",
                         "SERVICE_UNAVAILABLE", error.status))
    ELSE IF error.response THEN Threw(StatusSwitch(error, valueSetId))
    ELSE HandleVsacErrorNoFallback(error, valueSetId)

handleVsacError(error, valueSetId) ==
    IF error.response THEN Threw(StatusSwitch(error, valueSetId))
    ELSE IF error.code \in {"ENOTFOUND", "ECONNREFUSED"}
    THEN Threw(VSACError("Unable to connect to VSAC. Check your internet connection.",
                         "NETWORK_ERROR", 0))
    ELSE IF error.code = "ECONNABORTED" \/ Includes(error.message, "timeout")
    THEN Threw(VSACError("VSAC request timed out. The service may be slow, try again.",
                         "TIMEOUT", 0))
    ELSE IF Includes(error.message, "XML") \/ Includes(error.message, "parse")
    THEN Threw(VSACError("Invalid response from VSAC. The value set may be empty or malformed.",
                         "INVALID_RESPONSE", 0))
    ELSE Threw(VSACError("Unexpected VSAC error: " \o error.message, "UNKNOWN_ERROR", 0))

\* the lookup table of getVsacErrorGuidance
GuidanceTable ==
    [AUTH_FAILED |->
        << "Verify your UMLS username and password",
           "Check if your UMLS account is active",
           "Try logging into https://uts.nlm.nih.gov/uts/ manually" >>,
     ACCESS_FORBIDDEN |->
        << "Log into your UMLS account at https://uts.nlm.nih.gov/uts/",
           "Navigate to \"Profile\" and ensure VSAC access is enabled",
           "Contact UMLS support if access issues persist" >>,
     VALUESET_NOT_FOUND |->
        << "Verify the ValueSet OID format (e.g., 2.16.840.1.113883.x.x.x)",
           "Check if the ValueSet exists in VSAC web interface",
           "Try searching for the ValueSet by name in VSAC" >>,
     RATE_LIMIT |->
        << "Wait 60 seconds before retrying",
           "Reduce the number of concurrent requests",
           "Consider batching multiple ValueSet requests" >>,
     SERVICE_UNAVAILABLE |->
        << "Wait a few minutes and retry",
           "Check VSAC service status",
           "Try during off-peak hours" >>,
     NETWORK_ERROR |->
        << "Check your internet connection",
           "Verify firewall/proxy settings allow HTTPS to vsac.nlm.nih.gov",
           "Try from a different network" >>,
     TIMEOUT |->
        << "Retry with a smaller batch size",
           "Try during off-peak hours when VSAC is less busy",
           "Check your network connection speed" >>,
     INVALID_RESPONSE |->
        << "The ValueSet may be empty or contain malformed data",
           "Try accessing the ValueSet through VSAC web interface",
           "Report the issue if the ValueSet appears valid in VSAC" >>]

\* a lookup without the default list: undefined, here the empty list, for a
\* kind the table does not have
GuidanceFromTableOnly(error) ==
    IF error.code \in DOMAIN GuidanceTable THEN GuidanceTable[error.code] ELSE <<>>

getVsacErrorGuidance(error) ==
    IF error.code \in DOMAIN GuidanceTable
    THEN GuidanceTable[error.code]
    ELSE << "Check the error message for specific details",
            "Verify your VSAC credentials and network connection",
            "Try again after a short wait" >>

\* The catch block of retrieveValueSet: the error handler's VSACError is
\* rethrown with its guidance; were the handler to return, the call would
\* resolve with undefined.
\* lines 62-72 for the outcome h of handleVsacError
Rethrow(h) ==
    IF h.threw
    THEN Threw([name |-> h.error.name, message |-> h.error.message,
                code |-> h.error.code, statusCode |-> h.error.statusCode,
                guidance |-> getVsacErrorGuidance(h.error)])
    ELSE Returned("undefined")

RetrieveCatch(error, valueSetId) ==
    Rethrow(handleVsacError(error, valueSetId))


(***************************************************************************)
(* JavaScript values as the XML parser and the normalizer handle them.     *)
(* A value is a string [str |-> s], an object [obj |-> f] (f maps property *)
(* names to values), an array [arr |-> <<v1, ..>>], a number [num |-> n],  *)
(* null or undefined.                                                      *)
(***************************************************************************)

Null      == [null |-> TRUE]
Undefined == [undef |-> TRUE]
Str(s)    == [str |-> s]
Obj(f)    == [obj |-> f]
Arr(a)    == [arr |-> a]
Num(n)    == [num |-> n]
EmptyObj  == Obj(<<>>)

IsStr(v) == DOMAIN v = {"str"}
IsObj(v) == DOMAIN v = {"obj"}
IsArr(v) == DOMAIN v = {"arr"}
IsNum(v) == DOMAIN v = {"num"}

\* ToBoolean: null, undefined, '' and 0 are falsy, objects and arrays truthy
Truthy(v) ==
    IF IsStr(v) THEN v.str # ""
    ELSE IF IsNum(v) THEN v.num # 0
    ELSE (IsObj(v) \/ IsArr(v))

\* v[k] for a property name k that is no array index: undefined unless v is
\* an object holding k
Get(v, k) == IF IsObj(v) /\ k \in DOMAIN v.obj THEN v.obj[k] ELSE Undefined

\* Array.isArray(v) ? v : [v]
AsList(v) == IF IsArr(v) THEN v.arr ELSE <<v>>

\* a probe that looks for the first property name only
FirstPresentPrefixedOnly(v, k1, k2, dflt) ==
    IF Truthy(Get(v, k1)) THEN Get(v, k1) ELSE dflt

\* the first of two property names that holds a truthy value: the code's
\* if (x['ns0:K']) .. else if (x.K) .. chain; dflt when neither does
FirstPresent(v, k1, k2, dflt) ==
    IF Truthy(Get(v, k1)) THEN Get(v, k1)
    ELSE IF Truthy(Get(v, k2)) THEN Get(v, k2)
    ELSE dflt

(***************************************************************************)
(* Characters: whitespace, case folding, trim                              *)
(***************************************************************************)

WhiteSpace == {" ", "\t", "\n", "\r"}
LineTerminators == {"\n", "\r"}
Digits == {"0", "1", "2", "3", "4", "5", "6", "7", "8", "9"}

UpperToLower ==
    [A |-> "a", B |-> "b", C |-> "c", D |-> "d", E |-> "e", F |-> "f", G |-> "g",
     H |-> "h", I |-> "i", J |-> "j", K |-> "k", L |-> "l", M |-> "m", N |-> "n",
     O |-> "o", P |-> "p", Q |-> "q", R |-> "r", S |-> "s", T |-> "t", U |-> "u",
     V |-> "v", W |-> "w", X |-> "x", Y |-> "y", Z |-> "z"]

LowerChar(c) == IF c \in DOMAIN UpperToLower THEN UpperToLower[c] ELSE c

\* whether s holds, at position i, the literal lit (already lower case),
\* compared without regard to case (the regular expressions' i flag)
LitAt(s, i, lit) ==
    /\ i >= 1
    /\ i + Len(lit) - 1 <= Len(s)
    /\ \A j \in 1..Len(lit) : LowerChar(CharAt(s, i + j - 1)) = CharAt(lit, j)

\* String.prototype.trim
Trim(s) ==
    LET keep == {i \in 1..Len(s) : CharAt(s, i) \notin WhiteSpace}
    IN  IF keep = {} THEN ""
        ELSE LET lo == CHOOSE i \in keep : \A j \in keep : i <= j
                 hi == CHOOSE i \in keep : \A j \in keep : i >= j
             IN  SubSeq(s, lo, hi)

(***************************************************************************)
(* VSACService.parsePurposeField                                           *)
(***************************************************************************)

\* text.match(/\(<label>\s*([^)]+)\)/i): the capture of the leftmost match,
\* or "" with found = FALSE.  At a position holding "(" and the label, \s*
\* takes the whitespace that follows but leaves [^)]+ at least one
\* character, and [^)]+ runs to the first ")".
LabelMatch(text, label) ==
    LET lit == "(" \o label
        \* the first ")" at or after position i, 0 if none
        Close(i) == IF \E j \in i..Len(text) : CharAt(text, j) = ")"
                    THEN CHOOSE j \in i..Len(text) :
                            /\ CharAt(text, j) = ")"
                            /\ \A k \in i..(j - 1) : CharAt(text, k) # ")"
                    ELSE 0
        \* the end of the whitespace run that starts at i
        RunEnd(i) == IF \E j \in i..Len(text) : CharAt(text, j) \notin WhiteSpace
                     THEN CHOOSE j \in i..Len(text) :
                            /\ CharAt(text, j) \notin WhiteSpace
                            /\ \A k \in i..(j - 1) : CharAt(text, k) \in WhiteSpace
                     ELSE Len(text) + 1
        \* a match that starts at p: the capture starts after the whitespace,
        \* or one character earlier when the whitespace reaches the ")"
        After(p)  == p + Len(lit)
        CapStart(p) == IF RunEnd(After(p)) = Close(After(p)) /\ RunEnd(After(p)) > After(p)
                       THEN RunEnd(After(p)) - 1
                       ELSE RunEnd(After(p))
        Ok(p) == /\ LitAt(text, p, lit)
                 /\ Close(After(p)) > After(p)
        starts == {p \in 1..Len(text) : Ok(p)}
    IN  IF starts = {} THEN [found |-> FALSE, capture |-> ""]
        ELSE LET p == CHOOSE q \in starts : \A r \in starts : q <= r
             IN  [found |-> TRUE,
                  capture |-> SubSeq(text, CapStart(p), Close(After(p)) - 1)]

\* if (m) { metadata.field = m[1].trim(); }
Captured(m) == IF m.found THEN Str(Trim(m.capture)) ELSE Null

\* a pattern anchored at the start of the text: ^\(<label>\s*([^)]+)\)
PurposeFieldAtStart(text, label) ==
    IF LitAt(text, 1, "(" \o label) THEN Captured(LabelMatch(text, label)) ELSE Null

PurposeField(text, label) == Captured(LabelMatch(text, label))

NoPurpose ==
    [clinicalFocus |-> Null, dataElementScope |-> Null,
     inclusionCriteria |-> Null, exclusionCriteria |-> Null]

\* A purposeText that is no string has no match method: the TypeError is
\* caught inside parsePurposeField and the four fields stay null.
parsePurposeField(purposeText) ==
    IF ~Truthy(purposeText) THEN NoPurpose
    ELSE IF ~IsStr(purposeText) THEN NoPurpose
    ELSE [clinicalFocus     |-> PurposeField(purposeText.str, "clinical focus:"),
          dataElementScope  |-> PurposeField(purposeText.str, "data element scope:"),
          inclusionCriteria |-> PurposeField(purposeText.str, "inclusion criteria:"),
          exclusionCriteria |-> PurposeField(purposeText.str, "exclusion criteria:")]


(***************************************************************************)
(* VSACService.parseVsacResponse                                           *)
(*                                                                         *)
(* A response body is modelled by its JavaScript type and by what the      *)
(* XMLParser (fast-xml-parser, not part of the repository) does with it:   *)
(* [type |-> "string" | "object" | "null", xml |-> Threw(e) | Returned(t)] *)
(* with t the parsed tree.  Attributes are the "@_"-prefixed properties.   *)
(***************************************************************************)

EmptyMetadata ==
    [id |-> Null, displayName |-> Null, version |-> Null, source |-> Null,
     type |-> Null, binding |-> Null, status |-> Null, revisionDate |-> Null,
     clinicalFocus |-> Null, dataElementScope |-> Null,
     inclusionCriteria |-> Null, exclusionCriteria |-> Null]

SentinelConcept(code, codeSystemName, displayName) ==
    [code |-> Str(code), codeSystem |-> Str("N/A"),
     codeSystemName |-> Str(codeSystemName), displayName |-> Str(displayName)]

\* lines 186-208: the value sets of the parsed document
ValueSetsOf(parsed) ==
    IF Truthy(Get(parsed, "ns0:RetrieveMultipleValueSetsResponse"))
    THEN LET response == Get(parsed, "ns0:RetrieveMultipleValueSetsResponse")
         IN  IF Truthy(Get(response, "ns0:DescribedValueSet"))
             THEN AsList(Get(response, "ns0:DescribedValueSet"))
             ELSE <<>>
    ELSE IF Truthy(Get(parsed, "RetrieveMultipleValueSetsResponse"))
    THEN LET response == Get(parsed, "RetrieveMultipleValueSetsResponse")
         IN  IF Truthy(Get(response, "DescribedValueSet"))
             THEN AsList(Get(response, "DescribedValueSet"))
             ELSE IF Truthy(Get(response, "ValueSet"))
             THEN AsList(Get(response, "ValueSet"))
             ELSE <<>>
    ELSE <<>>

\* lines 272-278: the purpose metadata of a purpose text
PurposeOf(purposeText) ==
    IF Truthy(purposeText) THEN parsePurposeField(purposeText) ELSE NoPurpose

\* lines 229-278: the metadata of a value set whose purpose metadata is
\* purpose
Metadata(valueSet, purpose) ==
        [id           |-> Get(valueSet, "@_ID"),
         displayName  |-> Get(valueSet, "@_displayName"),
         version      |-> Get(valueSet, "@_version"),
         source       |-> FirstPresent(valueSet, "ns0:Source", "Source", Null),
         type         |-> FirstPresent(valueSet, "ns0:Type", "Type", Null),
         binding      |-> FirstPresent(valueSet, "ns0:Binding", "Binding", Null),
         status       |-> FirstPresent(valueSet, "ns0:Status", "Status", Null),
         revisionDate |-> FirstPresent(valueSet, "ns0:RevisionDate", "RevisionDate", Null),
         clinicalFocus     |-> purpose.clinicalFocus,
         dataElementScope  |-> purpose.dataElementScope,
         inclusionCriteria |-> purpose.inclusionCriteria,
         exclusionCriteria |-> purpose.exclusionCriteria]

\* lines 229-278: the metadata of a value set
MetadataOf(valueSet) ==
    Metadata(valueSet, PurposeOf(FirstPresent(valueSet, "ns0:Purpose", "Purpose", Null)))

\* concept nodes looked for under the prefixed name only
ConceptNodesPrefixedOnly(conceptList) ==
    IF Truthy(Get(conceptList, "ns0:Concept")) THEN AsList(Get(conceptList, "ns0:Concept"))
    ELSE <<>>

\* lines 300-311: the concept nodes of a concept list
ConceptNodes(conceptList) ==
    IF Truthy(Get(conceptList, "ns0:Concept")) THEN AsList(Get(conceptList, "ns0:Concept"))
    ELSE IF Truthy(Get(conceptList, "Concept")) THEN AsList(Get(conceptList, "Concept"))
    ELSE <<>>

\* a test that does not ask for the display name
CompleteWithoutDisplayName(concept) ==
    /\ Truthy(Get(concept, "@_code"))
    /\ Truthy(Get(concept, "@_codeSystem"))
    /\ Truthy(Get(concept, "@_codeSystemName"))

\* line 323: a concept node is emitted when its four attributes are truthy
Complete(concept) ==
    /\ Truthy(Get(concept, "@_code"))
    /\ Truthy(Get(concept, "@_codeSystem"))
    /\ Truthy(Get(concept, "@_codeSystemName"))
    /\ Truthy(Get(concept, "@_displayName"))

ConceptOf(concept) ==
    [code              |-> Get(concept, "@_code"),
     codeSystem        |-> Get(concept, "@_codeSystem"),
     codeSystemName    |-> Get(concept, "@_codeSystemName"),
     codeSystemVersion |-> IF Truthy(Get(concept, "@_codeSystemVersion"))
                           THEN Get(concept, "@_codeSystemVersion") ELSE Null,
     displayName       |-> Get(concept, "@_displayName")]

\* lines 315-334: the loop over the concept nodes
RECURSIVE ConceptsOf(_)
ConceptsOf(nodes) ==
    IF nodes = <<>> THEN <<>>
    ELSE (IF Complete(Head(nodes)) THEN <<ConceptOf(Head(nodes))>> ELSE <<>>)
            \o ConceptsOf(Tail(nodes))

\* Reading a property of null or undefined raises a TypeError
Nullish(v) == v = Null \/ v = Undefined

\* lines 313-338: the concepts of the concept nodes.  The loop reads the
\* attributes of each node, and throws on a nullish one.
Listed(metadata, nodes) ==
    IF \E i \in 1..Len(nodes) : Nullish(nodes[i])
    THEN Threw(LocalError("", "Cannot read properties of null (reading '@_code')"))
    ELSE Returned([metadata |-> metadata, concepts |-> ConceptsOf(nodes)])

\* a normalizer that drops the metadata of a value set without concept list
WithConceptListBlank(metadata, conceptList) ==
    IF ~Truthy(conceptList)
    THEN Returned([metadata |-> EmptyMetadata,
                   concepts |-> << SentinelConcept("EMPTY_VALUESET", "VSAC",
                        "ValueSet exists but contains no concepts (may be retired)") >>])
    ELSE Listed(metadata, ConceptNodes(conceptList))

\* lines 289-311: a value set without concept list gets the EMPTY_VALUESET
\* concept
WithConceptList(metadata, conceptList) ==
    IF ~Truthy(conceptList)
    THEN Returned([metadata |-> metadata,
                   concepts |-> << SentinelConcept("EMPTY_VALUESET", "VSAC",
                        "ValueSet exists but contains no concepts (may be retired)") >>])
    ELSE Listed(metadata, ConceptNodes(conceptList))

\* lines 225-338: the first value set.  Object.keys(valueSet) throws on a
\* nullish one.
First(valueSet) ==
    IF Nullish(valueSet)
    THEN Threw(LocalError("", "Cannot convert undefined or null to object"))
    ELSE WithConceptList(MetadataOf(valueSet),
                         FirstPresent(valueSet, "ns0:ConceptList", "ConceptList", Null))

\* a normalizer that returns no concept at all when it finds no value set
PrimaryNoSentinel(valueSets) ==
    IF Len(valueSets) = 0
    THEN Returned([metadata |-> EmptyMetadata, concepts |-> <<>>])
    ELSE First(valueSets[1])

\* lines 212-338: no value set gives the NO_VALUESET concept
Primary(valueSets) ==
    IF Len(valueSets) = 0
    THEN Returned([metadata |-> EmptyMetadata,
                   concepts |-> << SentinelConcept("NO_VALUESET", "VSAC",
                                          "No ValueSet found in response") >>])
    ELSE First(valueSets[1])

\* lines 167-338: the traversal of the parsed tree
Traverse(parsed) == Primary(ValueSetsOf(parsed))

\* lines 160-164: the body's length is read and the body parsed; then the
\* tree is traversed
TryBlock(responseXml) ==
    IF responseXml.type = "null"
    THEN Threw(LocalError("", "Cannot read properties of null (reading 'length')"))
    ELSE IF responseXml.xml.threw
    THEN Threw(responseXml.xml.error)
    ELSE Traverse(responseXml.xml.value)

\* a diagnostic result that does not carry the error's message
ParseErrorResultNoText(message) ==
    [metadata |-> [EmptyMetadata EXCEPT !.displayName = Str("Parse Error"),
                                        !.status = Str("ERROR")],
     concepts |-> << SentinelConcept("PARSE_ERROR", "VSAC_PARSER",
                                     "XML parsing failed") >>]

\* lines 341-368: the catch block's diagnostic result
ParseErrorResult(message) ==
    [metadata |-> [EmptyMetadata EXCEPT !.displayName = Str("Parse Error"),
                                        !.status = Str("ERROR")],
     concepts |-> << SentinelConcept("PARSE_ERROR", "VSAC_PARSER",
                                     "XML parsing failed: " \o message) >>]

\* parseVsacResponse without its try/catch: an exception leaves the function
ParseVsacResponseNoCatch(responseXml) ==
    TryBlock(responseXml)

\* The catch block logs responseXml.substring(0, 1000) before it builds its
\* result (line 343): on a body that is no string this throws again, out of
\* the function.
\* lines 340-368 for the outcome t of the try block
CatchBlock(responseXml, t) ==
    IF ~t.threw THEN t
    ELSE IF responseXml.type = "string"
    THEN Returned(ParseErrorResult(t.error.message))
    ELSE Threw(LocalError("", IF responseXml.type = "null"
                            THEN "Cannot read properties of null (reading 'substring')"
                            ELSE "responseXml.substring is not a function"))

parseVsacResponse(responseXml) ==
    CatchBlock(responseXml, TryBlock(responseXml))


(***************************************************************************)
(* The terminology service as the client sees it: the bodies a successful  *)
(* request may carry and the errors axios may raise                        *)
(***************************************************************************)

Pfx(prefixed, name) == IF prefixed THEN "ns0:" \o name ELSE name

\* A response body that is a string, by what the XML parser does with it
XmlBody(tree)      == [type |-> "string", xml |-> Returned(tree)]
BadXmlBody(message) ==
    [type |-> "string", xml |-> Threw(LocalError("", message))]
\* axios parses a body that is JSON before the service sees it: the JSON
\* text null arrives as null, a JSON object as an object, whose toString()
\* the XML parser reads as a document without elements
NullBody   == [type |-> "null", xml |-> Returned(EmptyObj)]
ObjectBody == [type |-> "object", xml |-> Returned(EmptyObj)]

FullConcept ==
    Obj([k \in {"@_code", "@_codeSystem", "@_codeSystemName", "@_codeSystemVersion",
                "@_displayName"} |->
            CASE k = "@_code" -> Str("E11.9")
              [] k = "@_codeSystem" -> Str("2.16.840.1.113883.6.90")
              [] k = "@_codeSystemName" -> Str("ICD10CM")
              [] k = "@_codeSystemVersion" -> Str("2024")
              [] OTHER -> Str("Type 2 diabetes mellitus without complications")])

\* <ns0:RetrieveMultipleValueSetsResponse><ns0:DescribedValueSet ID=..
\*   displayName=.. version=..><ns0:Status>Active</ns0:Status>
\*   <ns0:ConceptList><ns0:Concept .../></ns0:ConceptList>..
DiabetesDocument ==
    LET valueSet == Obj([k \in {"@_ID", "@_displayName", "@_version", "ns0:Status",
                                "ns0:ConceptList"} |->
            CASE k = "@_ID" -> Str("1.2")
              [] k = "@_displayName" -> Str("Diabetes")
              [] k = "@_version" -> Str("20210220")
              [] k = "ns0:Status" -> Str("Active")
              [] OTHER -> Obj([c \in {"ns0:Concept"} |-> FullConcept])])
    IN  Obj([r \in {"ns0:RetrieveMultipleValueSetsResponse"} |->
                Obj([d \in {"ns0:DescribedValueSet"} |-> valueSet])])

\* the same response without any value set: <ns0:RetrieveMultipleValueSetsResponse/>
EmptyDocument ==
    Obj([r \in {"ns0:RetrieveMultipleValueSetsResponse"} |-> Str("")])

\* The bodies of the successful responses of the service model
ServiceBodies ==
    { XmlBody(DiabetesDocument), XmlBody(EmptyDocument),
      BadXmlBody("Unclosed tag 'ns0:Concept'."), NullBody }

\* The errors of the service model, in three groups: answered requests
\* (authentication, forbidden, not found, rate limit, unavailable) and local
\* faults (network, timeout, unknown)
FaultGroups ==
    { { AxiosResponseError(401, ""), LocalError("ENOTFOUND",
                                        "getaddrinfo ENOTFOUND vsac.nlm.nih.gov"),
        LocalError("ECONNRESET", "socket hang up") },
      { AxiosResponseError(403, ""), AxiosResponseError(404, ""),
        LocalError("ECONNABORTED", "timeout of 30000ms exceeded") },
      { AxiosResponseError(429, ""), AxiosResponseError(503, "") } }

ServiceFaults == UNION FaultGroups

(***************************************************************************)
(* VSACService: the cache and retrieveValueSet                             *)
(***************************************************************************)

Ids       == {"1.2", "3.4"}
Versions  == {"", "v1"}           \* "" is the default version = null
Usernames == {"", "umls"}
Passwords == {"", "apikey"}

\* line 25
CacheKey(valueSetIdentifier, version) ==
    valueSetIdentifier \o "_" \o (IF version # "" THEN version ELSE "latest")

\* a cache key that leaves the version out
CacheKeyNoVersion(valueSetIdentifier, version) ==
    valueSetIdentifier \o "_latest"

EmptyCache == [k \in {} |-> None]

\* a cache of one entry: a set evicts what the cache held
CacheSetEvicting(c, key, value) ==
    [k \in {key} |-> value]

\* Map.prototype.set
CacheSet(c, key, value) ==
    [k \in DOMAIN c \cup {key} |-> IF k = key THEN value ELSE c[k]]

\* a header built from whatever credentials it is given
CreateBasicAuthUnchecked(username, password) ==
    Returned([scheme |-> "Basic",
              credentials |-> Trim(username) \o ":" \o Trim(password)])

\* The Authorization header, by the credentials it encodes (base64 is
\* one-to-one)
createBasicAuth(username, password) ==
    IF username = "" \/ password = ""
    THEN Threw(LocalError("", "VSAC username and password are required"))
    ELSE Returned([scheme |-> "Basic",
                   credentials |-> Trim(username) \o ":" \o Trim(password)])

\* lines 53-59 and 61-73: what retrieveValueSet does with a response.
\* The result is [settled |-> what the call's promise settles with,
\*                cache |-> the cache afterwards].
\* lines 54-59 and 61-73 for the outcome of parseVsacResponse
OnParsed(c, key, valueSetIdentifier, parsedData) ==
    IF parsedData.threw
    THEN [settled |-> RetrieveCatch(parsedData.error, valueSetIdentifier),
          cache |-> c]
    ELSE [settled |-> Returned(parsedData.value),
          cache |-> CacheSet(c, key, parsedData.value)]

\* retrieveValueSet that caches a diagnostic result for a failed request
OnResponseAlwaysCache(c, key, valueSetIdentifier, response) ==
    IF response.ok
    THEN OnParsed(c, key, valueSetIdentifier, parseVsacResponse(response.data))
    ELSE [settled |-> RetrieveCatch(response.error, valueSetIdentifier),
          cache |-> CacheSet(c, key, ParseErrorResult(response.error.message))]

OnResponse(c, key, valueSetIdentifier, response) ==
    IF response.ok
    THEN OnParsed(c, key, valueSetIdentifier, parseVsacResponse(response.data))
    ELSE [settled |-> RetrieveCatch(response.error, valueSetIdentifier),
          cache |-> c]

\* what the service may answer to a request: a body, or one of faults
ResponsesOf(bodies, faults) ==
    {[ok |-> TRUE, data |-> b] : b \in bodies}
        \cup {[ok |-> FALSE, error |-> e] : e \in faults}

Responses == ResponsesOf(ServiceBodies, ServiceFaults)

\* lines 24-51: retrieveValueSet up to its await.  The result is
\* [settled |-> the settlement, or None while the request is in flight,
\*  request |-> the request issued, or None].
\* lines 37-51 for the outcome of createBasicAuth
Request(valueSetIdentifier, version, basicAuth) ==
    IF basicAuth.threw
    THEN [settled |-> RetrieveCatch(basicAuth.error, valueSetIdentifier),
          request |-> None]
    ELSE [settled |-> None,
          request |-> [id |-> valueSetIdentifier, version |-> version,
                       auth |-> basicAuth.value]]

\* retrieveValueSet that builds the Authorization header before it looks
\* into the cache
StartAuthFirst(c, valueSetIdentifier, version, username, password) ==
    IF createBasicAuth(username, password).threw
       \/ CacheKey(valueSetIdentifier, version) \notin DOMAIN c
    THEN Request(valueSetIdentifier, version, createBasicAuth(username, password))
    ELSE [settled |-> Returned(c[CacheKey(valueSetIdentifier, version)]),
          request |-> None]

\* retrieveValueSet without its cache check
StartSkipCache(c, valueSetIdentifier, version, username, password) ==
    Request(valueSetIdentifier, version, createBasicAuth(username, password))

Start(c, valueSetIdentifier, version, username, password) ==
    IF CacheKey(valueSetIdentifier, version) \in DOMAIN c
    THEN [settled |-> Returned(c[CacheKey(valueSetIdentifier, version)]),
          request |-> None]
    ELSE Request(valueSetIdentifier, version, createBasicAuth(username, password))


(***************************************************************************)
(* The client: sequential retrieveValueSet calls, clearCache,              *)
(* getCacheStats                                                           *)
(***************************************************************************)

MaxCalls == 2

NoCall == None

CallRecord(id, version, username, password) ==
    [id |-> id, version |-> version, username |-> username, password |-> password,
     key |-> CacheKey(id, version)]

\* the record of a settled call: net tells whether it issued a network
\* request, answered whether the request came back with a response body,
\* cleared whether clearCache has run since it settled
Settled(c, settled, net, answered) ==
    [id |-> c.id, version |-> c.version, username |-> c.username,
     password |-> c.password, key |-> c.key,
     settled |-> settled, net |-> net, answered |-> answered, cleared |-> FALSE]

\* retrieveValueSet(valueSetIdentifier, version, username, password), up to
\* its await: a cache hit and an error of createBasicAuth settle the call at
\* once, otherwise the request is in flight
RetrieveValueSet(valueSetIdentifier, version, username, password) ==
    /\ call = NoCall
    /\ nCalls < MaxCalls
    /\ \E c  \in {CallRecord(valueSetIdentifier, version, username, password)},
          st \in {Start(cache, valueSetIdentifier, version, username, password)} :
           IF st.request # None
           THEN /\ call' = c
                /\ netCount' = netCount + 1
                /\ last' = last
           ELSE /\ call' = NoCall
                /\ netCount' = netCount
                /\ last' = Settled(c, st.settled, FALSE, FALSE)
    /\ nCalls' = nCalls + 1
    /\ UNCHANGED <<cache, stats, batch, errVars, extractVars, parseVars>>

\* the request of the call in flight is answered, or fails: lines 53-73
Respond(response) ==
    /\ call # NoCall
    /\ \E r \in {OnResponse(cache, call.key, call.id, response)} :
           /\ cache' = r.cache
           /\ last' = Settled(call, r.settled, TRUE, response.ok)
    /\ call' = NoCall
    /\ UNCHANGED <<nCalls, netCount, stats, batch, errVars, extractVars, parseVars>>

\* clearCache()
ClearCache ==
    /\ cache' = EmptyCache
    /\ last' = IF last = NoCall THEN last ELSE [last EXCEPT !.cleared = TRUE]
    /\ UNCHANGED <<call, nCalls, netCount, stats, batch, errVars, extractVars, parseVars>>

\* getCacheStats(): keys is the array of the cache's keys, here their set
GetCacheStats ==
    /\ stats' = [size |-> Cardinality(DOMAIN cache), keys |-> DOMAIN cache]
    /\ UNCHANGED <<cache, call, last, nCalls, netCount, batch,
                   errVars, extractVars, parseVars>>

(***************************************************************************)
(* VSACService.retrieveMultipleValueSets                                   *)
(***************************************************************************)

concurrency == 3

MaxIds == 4

RECURSIVE SeqsUpTo(_, _)
SeqsUpTo(S, n) ==
    IF n = 0 THEN {<<>>}
    ELSE LET shorter == SeqsUpTo(S, n - 1)
         IN  shorter \cup {Append(q, x) : q \in shorter, x \in S}

\* lines 392-403: the entry of an OID whose retrieval threw
ErrorEntry(oid, error) ==
    [metadata |-> [id |-> Str(oid), displayName |-> Str("Error"), status |-> Str("ERROR")],
     concepts |-> <<>>,
     error |-> error.message]

\* the callback of batch.map without its try/catch: the error of
\* retrieveValueSet rejects the callback's promise
PerOidNoCatch(oid, settled) ==
    IF settled.threw THEN Threw(settled.error)
    ELSE Returned([oid |-> oid, valueSetData |-> settled.value])

\* lines 386-405: the callback of batch.map, from the settlement of its
\* retrieveValueSet call to the settlement of its own promise
PerOid(oid, settled) ==
    IF settled.threw
    THEN Returned([oid |-> oid, valueSetData |-> ErrorEntry(oid, settled.error)])
    ELSE Returned([oid |-> oid, valueSetData |-> settled.value])

\* A slot is one callback of the current window: pos is the position of its
\* OID in valueSetIds; failed tells whether its retrieveValueSet call threw
\* the slot of a callback whose promise has settled with w
SlotWith(oid, pos, failed, w) ==
    [oid |-> oid, pos |-> pos,
     state |-> IF w.threw THEN "rejected" ELSE "resolved",
     data |-> IF w.threw THEN w.error ELSE w.value.valueSetData,
     failed |-> failed]

SettledSlot(oid, pos, settled) ==
    SlotWith(oid, pos, settled.threw, PerOid(oid, settled))

\* the slot of a callback whose retrieveValueSet call has run to its await
StartedSlot(oid, pos, st) ==
    IF st.request # None
    THEN [oid |-> oid, pos |-> pos, state |-> "inflight", data |-> None,
          failed |-> FALSE]
    ELSE SettledSlot(oid, pos, st.settled)

SlotOf(c, oid, pos, username, password) ==
    StartedSlot(oid, pos, Start(c, oid, "", username, password))

\* the bodies of the successful responses of a batch call
BatchBodies == { XmlBody(DiabetesDocument), BadXmlBody("Unclosed tag 'ns0:Concept'.") }

Min(a, b) == IF a <= b THEN a ELSE b

\* a fan-out without bound: valueSetIds.slice(i).map(..)
WindowToEnd(c, ids, i, username, password) ==
    [k \in 1..(Len(ids) - i) |-> SlotOf(c, ids[i + k], i + k, username, password)]

\* lines 384-405: valueSetIds.slice(i, i + concurrency).map(..): every
\* callback runs to its first await before the next one starts
Window(c, ids, i, username, password) ==
    [k \in 1..(Min(i + concurrency, Len(ids)) - i) |->
        SlotOf(c, ids[i + k], i + k, username, password)]

\* Promise.race in place of Promise.all: the window is over with its first
\* settled callback
AnySettled(slots) ==
    \E k \in 1..Len(slots) : slots[k].state # "inflight"

\* line 407: await Promise.all(promises) resumes when every promise has
\* resolved
AllSettled(slots) ==
    \A k \in 1..Len(slots) : slots[k].state # "inflight"

\* results[result.oid] written only when the OID has no entry yet
RECURSIVE RecordFirstWins(_, _)
RecordFirstWins(results, slots) ==
    IF slots = <<>> THEN results
    ELSE LET s == Head(slots)
         IN  RecordFirstWins(IF s.state = "resolved" /\ s.oid \notin DOMAIN results
                             THEN [o \in DOMAIN results \cup {s.oid} |->
                                     IF o = s.oid THEN s.data ELSE results[o]]
                             ELSE results,
                             Tail(slots))

\* lines 408-410: the results of the window, written in the window's order
RECURSIVE Record(_, _)
Record(results, slots) ==
    IF slots = <<>> THEN results
    ELSE LET s == Head(slots)
         IN  Record(IF s.state = "resolved"
                    THEN [o \in DOMAIN results \cup {s.oid} |->
                            IF o = s.oid THEN s.data ELSE results[o]]
                    ELSE results,
                    Tail(slots))

Settlements(slots) ==
    {slots[k].pos : k \in {j \in 1..Len(slots) : slots[j].state # "inflight"}}

Failures(slots) ==
    {slots[k].pos : k \in {j \in 1..Len(slots) : slots[j].failed}}

\* The call: pc is its position (idle, await: at line 407, done: returned,
\* failed: rejected), i the loop variable, slots the promises of the window,
\* results the object of line 379.  started, settled and failed are the
\* positions of valueSetIds whose retrieveValueSet call has started, has
\* settled, has thrown; faults are the errors the service may raise during
\* the call.
NoBatch ==
    [pc |-> "idle", ids |-> <<>>, username |-> "", password |-> "", i |-> 0,
     slots |-> <<>>, results |-> [o \in {} |-> None],
     started |-> {}, settled |-> {}, failed |-> {}, faults |-> {}]

\* the call at line 407, awaiting the callbacks of a window just started
Awaiting(b, slots) ==
    [b EXCEPT !.pc = "await", !.slots = slots,
              !.started = @ \cup {slots[k].pos : k \in 1..Len(slots)},
              !.settled = @ \cup Settlements(slots),
              !.failed = @ \cup Failures(slots)]

\* a loop that returns after its first window
LoopFirstWindow(b, c) ==
    IF b.i < Len(b.ids) /\ b.i = 0
    THEN Awaiting(b, Window(c, b.ids, b.i, b.username, b.password))
    ELSE [b EXCEPT !.pc = "done", !.slots = <<>>]

\* the loop of lines 383-411 from its test on: the next window is started,
\* or the results are returned
Loop(b, c) ==
    IF b.i < Len(b.ids)
    THEN Awaiting(b, Window(c, b.ids, b.i, b.username, b.password))
    ELSE [b EXCEPT !.pc = "done", !.slots = <<>>]

\* retrieveMultipleValueSets(valueSetIds, username, password), up to its
\* first await
RetrieveMultipleValueSets(valueSetIds, username, password, faults) ==
    /\ batch.pc = "idle"
    /\ batch' = Loop([NoBatch EXCEPT !.ids = valueSetIds, !.username = username,
                                     !.password = password, !.faults = faults], cache)
    /\ UNCHANGED <<serviceVars, errVars, extractVars, parseVars>>

\* the request of the k-th callback of the window is answered, or fails
BatchRespond(k, response) ==
    /\ batch.pc = "await"
    /\ k \in 1..Len(batch.slots)
    /\ batch.slots[k].state = "inflight"
    /\ \E s \in {batch.slots[k]} :
       \E r \in {OnResponse(cache, CacheKey(s.oid, ""), s.oid, response)} :
           /\ cache' = r.cache
           /\ batch' = [batch EXCEPT !.slots[k] = SettledSlot(s.oid, s.pos, r.settled),
                                     !.settled = @ \cup {s.pos},
                                     !.failed = IF r.settled.threw THEN @ \cup {s.pos}
                                                ELSE @]
    /\ UNCHANGED <<call, last, nCalls, netCount, stats, errVars, extractVars, parseVars>>

\* lines 407-411: Promise.all has settled; a rejected callback rejects it and
\* the whole call, otherwise the results are recorded and the loop goes on
WindowDone ==
    /\ batch.pc = "await"
    /\ \/ AllSettled(batch.slots)
       \/ \E k \in 1..Len(batch.slots) : batch.slots[k].state = "rejected"
    /\ IF \E k \in 1..Len(batch.slots) : batch.slots[k].state = "rejected"
       THEN batch' = [batch EXCEPT !.pc = "failed"]
       ELSE \E recorded \in {[batch EXCEPT !.results = Record(@, batch.slots),
                                           !.i = @ + concurrency]} :
                batch' = Loop(recorded, cache)
    /\ UNCHANGED <<serviceVars, errVars, extractVars, parseVars>>


(***************************************************************************)
(* extractValueSetIdentifiersFromCQL (src/src/mcp/resources/config.js)     *)
(*                                                                         *)
(* /(valueset\s")(.+)(":\s')(urn:oid:)((\d+\.)*\d+)(')/gi matched on the   *)
(* characters of the text                                                  *)
(***************************************************************************)

\* ((\d+\.)*\d+) : groups of digits separated by single dots
OidGroups(t) ==
    /\ Len(t) >= 1
    /\ \A j \in 1..Len(t) : CharAt(t, j) \in Digits \cup {"."}
    /\ CharAt(t, 1) # "."
    /\ CharAt(t, Len(t)) # "."
    /\ \A j \in 1..(Len(t) - 1) : ~(CharAt(t, j) = "." /\ CharAt(t, j + 1) = ".")

\* the end (exclusive) of the run of digits and dots that starts at q
RunOfOid(s, q) ==
    IF \E j \in q..Len(s) : CharAt(s, j) \notin Digits \cup {"."}
    THEN CHOOSE j \in q..Len(s) :
            /\ CharAt(s, j) \notin Digits \cup {"."}
            /\ \A k \in q..(j - 1) : CharAt(s, k) \in Digits \cup {"."}
    ELSE Len(s) + 1

\* groups 3 to 7 match at position e: ": 'urn:oid:<oid>'
TailAt(s, e) ==
    /\ CharAt(s, e) = "\""
    /\ CharAt(s, e + 1) = ":"
    /\ CharAt(s, e + 2) \in WhiteSpace
    /\ CharAt(s, e + 3) = "'"
    /\ LitAt(s, e + 4, "urn:oid:")
    /\ CharAt(s, RunOfOid(s, e + 12)) = "'"
    /\ OidGroups(SubSeq(s, e + 12, RunOfOid(s, e + 12) - 1))

\* group 1 matches at position p: valueset, one white-space character, "
HeadAt(s, p) ==
    /\ LitAt(s, p, "valueset")
    /\ CharAt(s, p + 8) \in WhiteSpace
    /\ CharAt(s, p + 9) = "\""

\* the positions where group 2, (.+), may end (exclusive) for a match that
\* starts at p: at least one character, none of them a line terminator
NameEnds(s, p) ==
    {e \in (p + 11)..Len(s) :
        /\ \A j \in (p + 10)..(e - 1) : CharAt(s, j) \notin LineTerminators
        /\ TailAt(s, e)}

\* (.+?) in place of (.+): the name ends at the first place the rest of the
\* pattern matches
NameEndLazy(s, p) ==
    CHOOSE e \in NameEnds(s, p) : \A f \in NameEnds(s, p) : e <= f

\* (.+) is greedy: the name ends at the last place the rest of the pattern
\* matches
NameEnd(s, p) ==
    CHOOSE e \in NameEnds(s, p) : \A f \in NameEnds(s, p) : e >= f

MatchAt(s, p) == HeadAt(s, p) /\ NameEnds(s, p) # {}

\* valuesetPattern.exec(cqlQuery) in the loop of lines 51-63: the leftmost
\* match at or after lastIndex, then on from the end of that match
RECURSIVE Matches(_, _)
Matches(s, lastIndex) ==
    LET starts == {p \in lastIndex..Len(s) : MatchAt(s, p)}
    IN  IF starts = {} THEN <<>>
        ELSE LET p == CHOOSE q \in starts : \A r \in starts : q <= r
                 e == NameEnd(s, p)
                 z == RunOfOid(s, e + 12)
             IN  << [name |-> SubSeq(s, p + 10, e - 1),
                     oid  |-> SubSeq(s, e + 12, z - 1)] >>
                    \o Matches(s, z + 1)

\* an array in place of the Set: every value as often as it was added
KeepAll(q) == q

\* Array.from(new Set(..)): each value once, in first-seen order
RECURSIVE Unique(_)
Unique(q) ==
    IF q = <<>> THEN <<>>
    ELSE LET front == Unique(SubSeq(q, 1, Len(q) - 1))
             x     == q[Len(q)]
         IN  IF \E j \in 1..Len(front) : front[j] = x THEN front ELSE Append(front, x)

EmptyExtraction == [oids |-> <<>>, valuesets |-> <<>>]

\* String(v) as RegExp.prototype.exec applies it to its argument
RECURSIVE Join(_)
Join(a) ==
    IF a = <<>> THEN ""
    ELSE (IF IsStr(a[1]) THEN a[1].str ELSE "")
            \o (IF Len(a) > 1 THEN "," ELSE "") \o Join(Tail(a))

ToStr(v) ==
    IF IsStr(v) THEN v.str
    ELSE IF IsNum(v) THEN ToString(v.num)
    ELSE IF IsArr(v) THEN Join(v.arr)
    ELSE IF IsObj(v) THEN "[object Object]"
    ELSE IF v = Null THEN "null"
    ELSE "undefined"

\* the extractor without its input validation: the pattern is run on
\* whatever it is given
ExtractUnvalidated(cqlQuery) ==
    LET m == Matches(ToStr(cqlQuery), 1)
    IN  [oids      |-> Unique([j \in 1..Len(m) |-> m[j].oid]),
         valuesets |-> [j \in 1..Len(m) |->
                           [name |-> Trim(m[j].name), oid |-> Trim(m[j].oid)]]]

\* cqlQuery is a JavaScript value; line 33 turns away what is falsy or no
\* string
extractValueSetIdentifiersFromCQL(cqlQuery) ==
    IF ~Truthy(cqlQuery) \/ ~IsStr(cqlQuery) THEN EmptyExtraction
    ELSE LET m == Matches(cqlQuery.str, 1)
         IN  [oids      |-> Unique([j \in 1..Len(m) |-> m[j].oid]),
              valuesets |-> [j \in 1..Len(m) |->
                                [name |-> Trim(m[j].name), oid |-> Trim(m[j].oid)]]]

(***************************************************************************)
(* The texts the extractor is run on: up to MaxItems items, each followed  *)
(* by a line break or by a space.  An item is a well-formed declaration or *)
(* one of the references the extractor is to pass over.                    *)
(***************************************************************************)

MaxItems == 2

DeclNames == {"A", "B"}
DeclOids  == {"1.2", "42"}
OtherOid  == "9.9"

Items ==
    {[kind |-> "decl", name |-> n, oid |-> o] : n \in DeclNames, o \in DeclOids}
        \cup {[kind |-> k, name |-> "X", oid |-> OtherOid] :
                k \in {"doublequoted", "define", "nourn", "nonnumeric"}}

ItemText(it) ==
    CASE it.kind = "decl" ->
            "valueset \"" \o it.name \o "\": 'urn:oid:" \o it.oid \o "'"
      [] it.kind = "doublequoted" ->
            "valueset \"" \o it.name \o "\": \"urn:oid:" \o it.oid \o "\""
      [] it.kind = "define" ->
            "define \"" \o it.name \o "\": [Condition: \"urn:oid:" \o it.oid \o "\"]"
      [] it.kind = "nourn" ->
            "valueset \"" \o it.name \o "\": 'some-other-reference'"
      [] OTHER ->
            "valueset \"" \o it.name \o "\": 'urn:oid:invalid.format'"

Separators == {"\n", " "}

RECURSIVE Render(_)
Render(ds) ==
    IF ds = <<>> THEN ""
    ELSE ItemText(Head(ds).item) \o Head(ds).sep \o Render(Tail(ds))

Texts == SeqsUpTo({[item |-> it, sep |-> sp] : it \in Items, sp \in Separators}, MaxItems)

\* what a caller may pass that is no text: null, undefined, numbers, an
\* object, arrays (one of them holding a declaration)
NonStrings ==
    { Null, Undefined, Num(0), Num(42), EmptyObj, Arr(<<>>),
      Arr(<< Str("valueset \"A\": 'urn:oid:1.2'") >>) }

\* await extractValueSetIdentifiersFromCQL(cql)
Extract ==
    /\ extracted = None
    /\ extracted' = extractValueSetIdentifiersFromCQL(cql)
    /\ UNCHANGED <<serviceVars, batch, errVars, cql, decls, oidList, validOids, report,
                   parseVars>>

(***************************************************************************)
(* validateExtractedOids (src/src/mcp/resources/config.js)                 *)
(***************************************************************************)

\* validOidPattern.test(oid) for /^\d+(?:\.\d+)+$/, run over the characters
\* of oid from position i.  st is the place in the pattern: "start" before
\* the first digit, "int" in the first group of digits, "dot" after a dot,
\* "frac" in a later group of digits; only "frac" can end the match.
RECURSIVE TestFrom(_, _, _)
TestFrom(oid, i, st) ==
    IF i > Len(oid) THEN st = "frac"
    ELSE IF CharAt(oid, i) \in Digits
    THEN TestFrom(oid, i + 1, IF st \in {"start", "int"} THEN "int" ELSE "frac")
    ELSE IF CharAt(oid, i) = "." /\ st \in {"int", "frac"}
    THEN TestFrom(oid, i + 1, "dot")
    ELSE FALSE

\* the callback of oids.filter, lines 99-104
KeepOid(oid) == IsStr(oid) /\ TestFrom(oid.str, 1, "start")

\* a filter that keeps the strings of digits and dots
RECURSIVE FilterDigitsAndDots(_)
FilterDigitsAndDots(a) ==
    IF a = <<>> THEN <<>>
    ELSE (IF IsStr(Head(a)) /\ Head(a).str # ""
             /\ \A j \in 1..Len(Head(a).str) : CharAt(Head(a).str, j) \in Digits \cup {"."}
          THEN <<Head(a)>> ELSE <<>>) \o FilterDigitsAndDots(Tail(a))

\* Array.prototype.filter
RECURSIVE Filter(_)
Filter(a) ==
    IF a = <<>> THEN <<>>
    ELSE (IF KeepOid(Head(a)) THEN <<Head(a)>> ELSE <<>>) \o Filter(Tail(a))

\* a validator that accepts every element of an array
ValidateAcceptsAll(oids) ==
    IF ~Truthy(oids) \/ ~IsArr(oids) THEN Returned(<<>>)
    ELSE Returned(oids.arr)

validateExtractedOids(oids) ==
    IF ~Truthy(oids) \/ ~IsArr(oids) THEN Returned(<<>>)
    ELSE Returned(Filter(oids.arr))

MaxOids == 3

\* the elements of the lists: OID strings, strings that are no OID, and
\* values that are no string
OidElements ==
    { Str("1.2"), Str("2.16.840"), Str("42"), Str(""), Str("1..2"), Str(".1"),
      Str("1."), Str("1.a"), Str("1.2\n"), Null, Undefined, Num(42),
      Arr(<<Str("1.2")>>) }

OidLists ==
    {Arr(a) : a \in SeqsUpTo(OidElements, MaxOids)}
        \cup {Null, Undefined, Str("1.2"), Str(""), Num(0), Num(42), Obj([length |-> Num(0)])}

\* validateExtractedOids(oidList)
Validate ==
    /\ oidList # None
    /\ validOids = None
    /\ validOids' = validateExtractedOids(oidList)
    /\ UNCHANGED <<serviceVars, batch, errVars, cql, decls, extracted, oidList, report,
                   parseVars>>

(***************************************************************************)
(* The validation reports: extractAndValidateValueSets (config.js) and the *)
(* tool handlers of src/src/mcp/tools/parseNlToCql.js                      *)
(***************************************************************************)

\* an array of strings as a JavaScript value, and back
ToArr(q)    == Arr([j \in 1..Len(q) |-> Str(q[j])])
Strings(a)  == [j \in 1..Len(a) |-> a[j].str]

Includes1(q, x) == \E j \in 1..Len(q) : q[j] = x

\* extractedOids.filter(oid => validOids.includes(oid))
RECURSIVE Included(_, _)
Included(all, valid) ==
    IF all = <<>> THEN <<>>
    ELSE (IF Includes1(valid, Head(all)) THEN <<Head(all)>> ELSE <<>>)
            \o Included(Tail(all), valid)

\* extractedOids.filter(oid => !validOids.includes(oid))
RECURSIVE Excluded(_, _)
Excluded(all, valid) ==
    IF all = <<>> THEN <<>>
    ELSE (IF Includes1(valid, Head(all)) THEN <<>> ELSE <<Head(all)>>)
            \o Excluded(Tail(all), valid)

\* config.js 135-144
ReportOf(extractedOids, valuesets, valid, invalid) ==
    [totalFound |-> Len(extractedOids), validOids |-> valid, invalidOids |-> invalid,
     allExtracted |-> extractedOids, valuesets |-> valuesets,
     hasValueSets |-> Len(extractedOids) > 0,
     validCount |-> Len(valid), invalidCount |-> Len(invalid)]

\* config.js 128-133
Validated(extractedOids, valuesets, valid) ==
    ReportOf(extractedOids, valuesets, valid, Excluded(extractedOids, valid))

Extracted(extractionResult) ==
    Validated(extractionResult.oids, extractionResult.valuesets,
              Strings(validateExtractedOids(ToArr(extractionResult.oids)).value))

extractAndValidateValueSets(cqlQuery) ==
    IF ~Truthy(cqlQuery) \/ ~IsStr(cqlQuery)
    THEN ReportOf(<<>>, <<>>, <<>>, <<>>)
    ELSE Extracted(extractValueSetIdentifiersFromCQL(cqlQuery))

\* The tool handlers import extractValueSetIdentifiersFromCQL and
\* validateExtractedOids from ./parseNlToCql/extractors.js: the extractor
\* returns { oids, valuesets }, the validator the array of the valid OIDs.
ExtractorsExtract(cqlQuery) == extractValueSetIdentifiersFromCQL(cqlQuery)
ExtractorsValidate(oids)    == validateExtractedOids(oids)

\* parseNlToCql.js 86-92: the result of the valueset-regex-extraction tool
ToolResult(extractedOids, valuesets, valid, invalid) ==
    [extractedValueSets |-> valuesets, validOids |-> valid, invalidOids |-> invalid,
     summary |-> [totalFound |-> Len(extractedOids), validOids |-> Len(valid),
                  invalidOids |-> Len(invalid)]]

\* parseNlToCql.js 76-81
ToolValidated(extractedOids, valuesets, valid) ==
    ToolResult(extractedOids, valuesets, valid, Excluded(extractedOids, valid))

RegexExtractionTool(cqlQuery) ==
    LET extractionResult == ExtractorsExtract(cqlQuery)
    IN  Returned(ToolValidated(extractionResult.oids, extractionResult.valuesets,
                  Strings(ExtractorsValidate(ToArr(extractionResult.oids)).value)))

\* parseNlToCql.js 16-29 and 43-53: the parse-nl-to-cql tool hands the
\* extractor's result, an object, to the validator and reads valid, invalid
\* and warnings of what comes back, an array: validation.valid.length
\* throws, and the handler answers with the error
ParseNlToCqlTool(cql1) ==
    LET valueSetReferences == ExtractorsExtract(cql1)
        validation == ExtractorsValidate(Obj(valueSetReferences)).value
    IN  IF "valid" \in DOMAIN validation
        THEN Returned([validOids |-> validation.valid, invalidOids |-> validation.invalid])
        ELSE Threw(LocalError("", "Cannot read properties of undefined (reading 'length')"))

\* await extractAndValidateValueSets(cql)
ExtractAndValidate ==
    /\ report = None
    /\ report' = [by |-> "extractAndValidateValueSets",
                  out |-> Returned(extractAndValidateValueSets(cql))]
    /\ UNCHANGED <<serviceVars, batch, errVars, cql, decls, extracted, oidList,
                   validOids, parseVars>>

\* the valueset-regex-extraction tool on a text (the schema admits strings)
CallRegexExtractionTool ==
    /\ report = None
    /\ IsStr(cql)
    /\ report' = [by |-> "valueset-regex-extraction",
                  out |-> RegexExtractionTool(cql)]
    /\ UNCHANGED <<serviceVars, batch, errVars, cql, decls, extracted, oidList,
                   validOids, parseVars>>

\* the parse-nl-to-cql tool, from the text that parseToCql returned
CallParseNlToCqlTool ==
    /\ report = None
    /\ IsStr(cql)
    /\ report' = [by |-> "parse-nl-to-cql", out |-> ParseNlToCqlTool(cql)]
    /\ UNCHANGED <<serviceVars, batch, errVars, cql, decls, extracted, oidList,
                   validOids, parseVars>>

NextReport == ExtractAndValidate \/ CallRegexExtractionTool \/ CallParseNlToCqlTool

(***************************************************************************)
(* The catch block of retrieveValueSet on every error it can be handed     *)
(***************************************************************************)

\* the statuses of an answered request that axios turns into an error:
\* validateStatus accepts 200..299 only
ErrorStatuses == (100..199) \cup (300..599)

CaughtErrors ==
    {AxiosResponseError(st, d) : st \in ErrorStatuses, d \in {"", "Service Unavailable"}}
      \cup { LocalError("ENOTFOUND", "getaddrinfo ENOTFOUND vsac.nlm.nih.gov"),
             LocalError("ECONNREFUSED", "connect ECONNREFUSED 130.14.16.45:443"),
             LocalError("ECONNABORTED", "timeout of 30000ms exceeded"),
             LocalError("ECONNABORTED", "Request aborted"),
             LocalError("ETIMEDOUT", "connect ETIMEDOUT 130.14.16.45:443"),
             LocalError("ECONNRESET", "socket hang up"),
             LocalError("ERR_NETWORK", "Network Error"),
             LocalError("HPE_INVALID_CONSTANT", "Parse Error: Expected HTTP/"),
             LocalError("ERR_BAD_RESPONSE", "maxContentLength size of -1 exceeded"),
             LocalError("", "VSAC username and password are required"),
             LocalError("", "Cannot read properties of null (reading 'substring')"),
             LocalError("", "responseXml.substring is not a function"),
             LocalError("", "Invalid XML in response"),
             LocalError("", "Failed to parse response") }

\* catch (error) { .. } of retrieveValueSet, lines 61-73
Catch ==
    /\ errIn # None
    /\ errOut = None
    /\ errOut' = RetrieveCatch(errIn, "1.2")
    /\ UNCHANGED <<serviceVars, batch, errIn, extractVars, parseVars>>


(***************************************************************************)
(* The response bodies the normalizer is run on                            *)
(***************************************************************************)

MaxConcepts == 2

\* a function from a set of property names, as an object
ObjOf(keys, f(_)) == Obj([k \in keys |-> f(k)])

\* <Concept .../> nodes: with all attributes, without codeSystemVersion,
\* without code, with an empty displayName
ConceptKinds == {"full", "noversion", "nocode", "emptyname"}

ConceptNode(kind) ==
    LET keys == CASE kind = "full" -> {"@_code", "@_codeSystem", "@_codeSystemName",
                                       "@_codeSystemVersion", "@_displayName"}
                  [] kind = "nocode" -> {"@_codeSystem", "@_codeSystemName", "@_displayName"}
                  [] OTHER -> {"@_code", "@_codeSystem", "@_codeSystemName", "@_displayName"}
        Val(k) == CASE k = "@_code" -> Str("E11.9")
                    [] k = "@_codeSystem" -> Str("2.16.840.1.113883.6.90")
                    [] k = "@_codeSystemName" -> Str("ICD10CM")
                    [] k = "@_codeSystemVersion" -> Str("2024")
                    [] OTHER -> Str(IF kind = "emptyname" THEN "" ELSE "Type 2 diabetes")
    IN  ObjOf(keys, Val)

\* <ConceptList> with the given concept nodes: an element without children
\* parses to '', one child to an object, several to an array
ConceptListValue(prefixed, kinds) ==
    IF kinds = <<>> THEN Str("")
    ELSE LET nodes == [j \in 1..Len(kinds) |-> ConceptNode(kinds[j])]
             Val(k) == IF Len(nodes) = 1 THEN nodes[1] ELSE Arr(nodes)
         IN  ObjOf({Pfx(prefixed, "Concept")}, Val)

PurposeTexts ==
    { "",
      "(Clinical Focus: Diabetes),(Data Element Scope: Dx),(Inclusion Criteria: All),(Exclusion Criteria: None)",
      "(Exclusion Criteria: None),(clinical focus:  Diabetes )" }

\* <DescribedValueSet ID=.. displayName=.. version=..> with its Status and
\* Purpose elements and, with hasList, its ConceptList
ValueSetValue(prefixed, purpose, hasList, kinds) ==
    LET keys == {"@_ID", "@_displayName", "@_version", Pfx(prefixed, "Status")}
                    \cup (IF purpose # "" THEN {Pfx(prefixed, "Purpose")} ELSE {})
                    \cup (IF hasList THEN {Pfx(prefixed, "ConceptList")} ELSE {})
        Val(k) == CASE k = "@_ID" -> Str("1.2")
                    [] k = "@_displayName" -> Str("Diabetes")
                    [] k = "@_version" -> Str("20210220")
                    [] k = Pfx(prefixed, "Status") -> Str("Active")
                    [] k = Pfx(prefixed, "Purpose") -> Str(purpose)
                    [] OTHER -> ConceptListValue(prefixed, kinds)
    IN  ObjOf(keys, Val)

\* the document: the response root, named with or without the prefix,
\* holding count value-set elements named elem, with or without the prefix
Document(rootPrefixed, elemPrefixed, elem, count, valueSet) ==
    LET Inner(k) == IF count = 1 THEN valueSet ELSE Arr(<<valueSet, valueSet>>)
        Root(k)  == IF count = 0 THEN Str("")
                    ELSE ObjOf({Pfx(elemPrefixed, elem)}, Inner)
    IN  ObjOf({Pfx(rootPrefixed, "RetrieveMultipleValueSetsResponse")}, Root)

Documents ==
    { Document(rp, ep, elem, count, ValueSetValue(ep, purpose, hasList, kinds)) :
        rp \in BOOLEAN, ep \in BOOLEAN, elem \in {"DescribedValueSet", "ValueSet"},
        count \in 0..2, purpose \in PurposeTexts, hasList \in BOOLEAN,
        kinds \in SeqsUpTo(ConceptKinds, MaxConcepts) }

\* The levels of a document: the response root, the value-set list, the
\* elements of a value set (its concept list among them), the concept nodes
LevelOf(name) ==
    CASE name = "RetrieveMultipleValueSetsResponse" -> "root"
      [] name \in {"DescribedValueSet", "ValueSet"} -> "list"
      [] name = "Concept" -> "concept"
      [] OTHER -> "inner"

BareName(k) == IF Len(k) > 4 /\ SubSeq(k, 1, 4) = "ns0:" THEN SubSeq(k, 5, Len(k)) ELSE k

\* the name of property k in a document that carries the prefix on the
\* levels that m marks
Renamed(k, m) ==
    IF Len(k) >= 2 /\ SubSeq(k, 1, 2) = "@_" THEN k
    ELSE Pfx(m[LevelOf(BareName(k))], BareName(k))

\* the tree v with the prefix on the levels that m marks, and on no other
RECURSIVE Relabel(_, _)
Relabel(v, m) ==
    IF IsObj(v)
    THEN Obj([n \in {Renamed(k, m) : k \in DOMAIN v.obj} |->
                Relabel(v.obj[CHOOSE k \in DOMAIN v.obj : Renamed(k, m) = n], m)])
    ELSE IF IsArr(v) THEN Arr([j \in 1..Len(v.arr) |-> Relabel(v.arr[j], m)])
    ELSE v

Levels == {"root", "list", "inner", "concept"}

\* documents whose levels mix the two forms of the element names
MixedDocuments ==
    { Relabel(Document(TRUE, TRUE, "DescribedValueSet", count,
                       ValueSetValue(TRUE, purpose, TRUE, kinds)), m) :
        count \in 1..2,
        purpose \in {"", "(Exclusion Criteria: None),(clinical focus:  Diabetes )"},
        kinds \in {<<>>, <<"full">>, <<"noversion", "full">>},
        m \in [Levels -> BOOLEAN] }

\* The bodies that are strings: documents, text without any element (the
\* empty string, garbage), and text the XML parser gives up on
StringBodies ==
    {XmlBody(d) : d \in Documents \cup MixedDocuments}
        \cup { XmlBody(EmptyObj),
               BadXmlBody("Unclosed tag 'ns0:Concept'."),
               BadXmlBody("Unexpected end of ns0:ConceptList"),
               BadXmlBody("Maximum nested tags exceeded") }

Bodies == StringBodies \cup {NullBody, ObjectBody}

\* this.parseVsacResponse(response.data)
Parse ==
    /\ payload # None
    /\ parsedOut = None
    /\ parsedOut' = parseVsacResponse(payload)
    /\ UNCHANGED <<serviceVars, batch, errVars, extractVars, payload,
                   purposeIn, segments, purposeOut>>

(***************************************************************************)
(* The Purpose texts parsePurposeField is run on: up to MaxSegments        *)
(* parenthesized segments separated by commas, in any order, a label       *)
(* possibly more than once                                                 *)
(***************************************************************************)

MaxSegments == 3

PurposeLabels == {"Clinical Focus", "Data Element Scope",
                  "Inclusion Criteria", "Exclusion Criteria"}

Segments ==
    {[label |-> l, value |-> v] : l \in PurposeLabels, v \in {"Diabetes", " All ", " "}}
        \cup {[label |-> "Other", value |-> "x"]}

SegmentText(g) == "(" \o g.label \o ":" \o g.value \o ")"

RECURSIVE RenderPurpose(_)
RenderPurpose(gs) ==
    IF gs = <<>> THEN ""
    ELSE SegmentText(Head(gs)) \o (IF Len(gs) > 1 THEN "," ELSE "")
            \o RenderPurpose(Tail(gs))

\* this.parsePurposeField(purposeIn)
ParsePurpose ==
    /\ purposeIn # None
    /\ purposeOut = None
    /\ purposeOut' = parsePurposeField(purposeIn)
    /\ UNCHANGED <<serviceVars, batch, errVars, extractVars, payload, parsedOut,
                   purposeIn, segments>>

(***************************************************************************)
(* Specifications                                                          *)
(***************************************************************************)

Idle ==
    /\ cache = EmptyCache
    /\ call = NoCall
    /\ last = NoCall
    /\ nCalls = 0
    /\ netCount = 0
    /\ stats = None
    /\ batch = NoBatch
    /\ errIn = None
    /\ errOut = None
    /\ cql = Null
    /\ decls = <<>>
    /\ extracted = None
    /\ oidList = None
    /\ validOids = None
    /\ report = None
    /\ payload = None
    /\ parsedOut = None
    /\ purposeIn = None
    /\ segments = <<>>
    /\ purposeOut = None

\* the service after construction (line 9: an empty cache)
Init == Idle

\* Calls of one client, which awaits each retrieveValueSet call before the
\* next, and clears and inspects the cache at any time
NextService ==
    \/ \E id \in Ids, version \in Versions, u \in Usernames, pw \in Passwords :
            RetrieveValueSet(id, version, u, pw)
    \/ \E response \in Responses : Respond(response)
    \/ ClearCache
    \/ GetCacheStats

SpecService == Init /\ [][NextService]_vars

\* One retrieveMultipleValueSets call
NextBatch ==
    \/ \E ids \in SeqsUpTo(Ids, MaxIds), u \in Usernames, pw \in Passwords,
          faults \in FaultGroups :
            RetrieveMultipleValueSets(ids, u, pw, faults)
    \/ \E k \in 1..concurrency, response \in ResponsesOf(BatchBodies, batch.faults) :
            BatchRespond(k, response)
    \/ WindowDone

\* The cache a batch call may find: empty, or holding the value set of an
\* earlier retrieval
InitBatch ==
    /\ cache \in {EmptyCache,
                  CacheSet(EmptyCache, CacheKey("1.2", ""),
                           parseVsacResponse(XmlBody(DiabetesDocument)).value)}
    /\ call = NoCall /\ last = NoCall /\ nCalls = 0 /\ netCount = 0 /\ stats = None
    /\ batch = NoBatch
    /\ errIn = None /\ errOut = None
    /\ cql = Null /\ decls = <<>> /\ extracted = None
    /\ oidList = None /\ validOids = None /\ report = None
    /\ payload = None /\ parsedOut = None
    /\ purposeIn = None /\ segments = <<>> /\ purposeOut = None

SpecBatch == InitBatch /\ [][NextBatch]_vars

\* One retrieveMultipleValueSets call when every request settles: axios
\* settles each request with a response, an error or, after 30 s, a timeout
\* (lines 44-51), and the event loop resumes the call at line 407 once
\* Promise.all has settled
NextFairBatch ==
    \/ \E ids \in SeqsUpTo(Ids, MaxIds) :
            RetrieveMultipleValueSets(ids, "umls", "apikey",
                { AxiosResponseError(404, ""),
                  LocalError("ECONNABORTED", "timeout of 30000ms exceeded") })
    \/ \E k \in 1..concurrency,
          response \in ResponsesOf({XmlBody(DiabetesDocument)}, batch.faults) :
            BatchRespond(k, response)
    \/ WindowDone

FairSpecBatch ==
    /\ InitBatch /\ [][NextFairBatch]_vars
    /\ WF_vars(WindowDone)
    /\ \A k \in 1..concurrency :
            WF_vars(\E response \in ResponsesOf({XmlBody(DiabetesDocument)},
                                                 batch.faults) :
                        BatchRespond(k, response))

\* Every operation on the cache: one client's retrieveValueSet calls and
\* one retrieveMultipleValueSets call run side by side, with clearCache and
\* getCacheStats at any time
MaxBatchIds == 2

CacheFaults == {AxiosResponseError(404, "")}

CacheResponses == ResponsesOf({XmlBody(DiabetesDocument)}, CacheFaults)

NextCache ==
    \/ \E id \in Ids : RetrieveValueSet(id, "", "umls", "apikey")
    \/ \E response \in CacheResponses : Respond(response)
    \/ ClearCache
    \/ GetCacheStats
    \/ \E ids \in SeqsUpTo(Ids, MaxBatchIds) :
            RetrieveMultipleValueSets(ids, "umls", "apikey", CacheFaults)
    \/ \E k \in 1..concurrency, response \in CacheResponses :
            BatchRespond(k, response)
    \/ WindowDone

SpecCache == Init /\ [][NextCache]_vars

\* Calls of one client with identifiers and versions of any text: the
\* method takes what it is given (lines 24-25), an underscore included
NextKeys ==
    \/ \E id \in {"1.2", "1.2_v1"}, version \in {"", "v1", "latest", "v1_latest"} :
            RetrieveValueSet(id, version, "umls", "apikey")
    \/ \E response \in CacheResponses : Respond(response)
    \/ ClearCache
    \/ GetCacheStats

SpecKeys == Init /\ [][NextKeys]_vars

\* The catch block of retrieveValueSet on each error
InitCatch ==
    /\ errIn \in CaughtErrors
    /\ errOut = None
    /\ cache = EmptyCache
    /\ call = NoCall /\ last = NoCall /\ nCalls = 0 /\ netCount = 0 /\ stats = None
    /\ batch = NoBatch
    /\ cql = Null /\ decls = <<>> /\ extracted = None
    /\ oidList = None /\ validOids = None /\ report = None
    /\ payload = None /\ parsedOut = None
    /\ purposeIn = None /\ segments = <<>> /\ purposeOut = None

SpecCatch == InitCatch /\ [][Catch]_vars

\* The extractor on each text
InitExtract ==
    /\ \/ decls \in Texts /\ cql = Str(Render(decls))
       \/ decls = <<>> /\ cql \in NonStrings
    /\ extracted = None
    /\ oidList = None /\ validOids = None /\ report = None
    /\ cache = EmptyCache
    /\ call = NoCall /\ last = NoCall /\ nCalls = 0 /\ netCount = 0 /\ stats = None
    /\ batch = NoBatch
    /\ errIn = None /\ errOut = None
    /\ payload = None /\ parsedOut = None
    /\ purposeIn = None /\ segments = <<>> /\ purposeOut = None

SpecExtract == InitExtract /\ [][Extract]_vars

\* The validation report of each text, by extractAndValidateValueSets or by
\* a tool handler
SpecReport == InitExtract /\ [][NextReport]_vars

\* The normalizer on each response body
InitParse ==
    /\ payload \in Bodies
    /\ parsedOut = None
    /\ cache = EmptyCache
    /\ call = NoCall /\ last = NoCall /\ nCalls = 0 /\ netCount = 0 /\ stats = None
    /\ batch = NoBatch
    /\ errIn = None /\ errOut = None
    /\ cql = Null /\ decls = <<>> /\ extracted = None
    /\ oidList = None /\ validOids = None /\ report = None
    /\ purposeIn = None /\ segments = <<>> /\ purposeOut = None

SpecParse == InitParse /\ [][Parse]_vars

\* parsePurposeField on each Purpose text, and on the null of a value set
\* without Purpose element
InitPurpose ==
    /\ \/ segments \in SeqsUpTo(Segments, MaxSegments)
          /\ purposeIn = Str(RenderPurpose(segments))
       \/ segments = <<>> /\ purposeIn = Null
    /\ purposeOut = None
    /\ payload = None /\ parsedOut = None
    /\ cache = EmptyCache
    /\ call = NoCall /\ last = NoCall /\ nCalls = 0 /\ netCount = 0 /\ stats = None
    /\ batch = NoBatch
    /\ errIn = None /\ errOut = None
    /\ cql = Null /\ decls = <<>> /\ extracted = None
    /\ oidList = None /\ validOids = None /\ report = None

SpecPurpose == InitPurpose /\ [][ParsePurpose]_vars

\* The validator on each list
InitValidate ==
    /\ oidList \in OidLists
    /\ validOids = None
    /\ report = None
    /\ cql = Null /\ decls = <<>> /\ extracted = None
    /\ cache = EmptyCache
    /\ call = NoCall /\ last = NoCall /\ nCalls = 0 /\ netCount = 0 /\ stats = None
    /\ batch = NoBatch
    /\ errIn = None /\ errOut = None
    /\ payload = None /\ parsedOut = None
    /\ purposeIn = None /\ segments = <<>> /\ purposeOut = None

SpecValidate == InitValidate /\ [][Validate]_vars

\* Every operation of the model
Next == NextService \/ NextBatch \/ Catch \/ Extract \/ Validate \/ NextReport \/ Parse \/ ParsePurpose

Spec == Init /\ [][Next]_vars


(***************************************************************************)
(* Claims: retrieveMultipleValueSets (SpecBatch)                           *)
(***************************************************************************)

Range(q) == {q[j] : j \in 1..Len(q)}

\* the last position of valueSetIds that holds oid
LastPos(ids, oid) ==
    CHOOSE p \in 1..Len(ids) : ids[p] = oid /\ \A q \in (p + 1)..Len(ids) : ids[q] # oid

HasError(entry) == "error" \in DOMAIN entry /\ entry.error # ""

IsErrorEntry(entry) ==
    /\ HasError(entry)
    /\ entry.concepts = <<>>
    /\ entry.metadata.status = Str("ERROR")

\* C1, as stated: when the call has returned, the keys of the returned map
\* are the OIDs of the input list, and the entry of every OID of which a
\* retrieval failed carries an error and no concepts.
C1_FailedOidHasError ==
    batch.pc = "done" =>
        /\ DOMAIN batch.results = Range(batch.ids)
        /\ \A p \in batch.failed :
              /\ HasError(batch.results[batch.ids[p]])
              /\ batch.results[batch.ids[p]].concepts = <<>>

\* C1, amended: when the call has returned, the keys of the returned map
\* are the OIDs of the input list, and the entry of every OID is that of its
\* last occurrence in the list: it carries an error and no concepts when
\* that retrieval failed, and no error when it succeeded.
C1_LastOccurrenceDecides ==
    batch.pc = "done" =>
        /\ DOMAIN batch.results = Range(batch.ids)
        /\ \A oid \in Range(batch.ids) :
              IF LastPos(batch.ids, oid) \in batch.failed
              THEN /\ HasError(batch.results[oid])
                   /\ batch.results[oid].concepts = <<>>
              ELSE "error" \notin DOMAIN batch.results[oid]

\* a returned call whose list repeats an OID, with a failed retrieval of it
\* followed by a successful one
C1_Witness ==
    /\ batch.pc = "done"
    /\ \E p \in batch.failed :
          /\ LastPos(batch.ids, batch.ids[p]) \notin batch.failed
          /\ "error" \notin DOMAIN batch.results[batch.ids[p]]
    /\ \E q \in batch.failed : HasError(batch.results[batch.ids[q]])

WindowOf(p) == (p - 1) \div concurrency

\* C3: at most 3 retrievals are in flight, and a retrieval is started only
\* when every retrieval of the earlier windows has settled.
C3_WindowedConcurrency ==
    /\ Cardinality(batch.started \ batch.settled) <= concurrency
    /\ \A p \in batch.started : \A q \in 1..Len(batch.ids) :
          WindowOf(q) < WindowOf(p) => q \in batch.settled

\* the third retrieval of a window has failed at the service while the
\* first and the second are still in flight
C3_Witness ==
    /\ batch.pc = "await"
    /\ Len(batch.slots) = concurrency
    /\ batch.slots[1].state = "inflight"
    /\ batch.slots[2].state = "inflight"
    /\ batch.slots[3].state = "resolved"
    /\ batch.slots[3].failed
    /\ batch.username # "" /\ batch.password # ""

\* the positions of valueSetIds whose request is in flight
InFlight == batch.started \ batch.settled

\* C20 as stated: no two requests of a call that are in flight together
\* are for the same OID, whatever the list.
C20_NoTwoInFlightForOneOid ==
    \A p, q \in InFlight : p # q => batch.ids[p] # batch.ids[q]

\* C20: two requests of a call that are in flight together are for the
\* same OID only when the list repeats that OID within one window of 3; an
\* OID repeated in different windows, or not repeated, never has two
\* requests in flight.
C20_NoTwoInFlightAcrossWindows ==
    \A p, q \in InFlight :
        (p # q /\ batch.ids[p] = batch.ids[q]) => WindowOf(p) = WindowOf(q)

\* the second window requests an OID again whose request of the first
\* window has failed, while nothing else is in flight for it
C20_Witness ==
    /\ batch.pc = "await"
    /\ Len(batch.ids) = 4
    /\ batch.ids[4] = batch.ids[1]
    /\ 1 \in batch.failed
    /\ InFlight = {4}

\* two requests of one window are in flight for the same OID
C20_WitnessSameWindow ==
    /\ batch.pc = "await"
    /\ {1, 2} \subseteq InFlight
    /\ batch.ids[1] = batch.ids[2]

(***************************************************************************)
(* Claims: retrieveValueSet and its cache (SpecService)                    *)
(***************************************************************************)

\* the call that a RetrieveValueSet step has just made: in flight when it
\* issued a request, settled otherwise
Made == IF call' # NoCall THEN call' ELSE last'

SameKeyAgain ==
    /\ nCalls' = nCalls + 1
    /\ last # NoCall
    /\ Made.id = last.id
    /\ Made.version = last.version
    /\ Made.username # "" /\ Made.password # ""

\* C4: when a call has fetched a value set from the service and returned
\* it, the next call with the same identifier and version and with
\* credentials, made before the cache is cleared, issues no request and
\* returns the same result: the two calls issue one request in total.
C4_CacheIdempotence ==
    [][ (SameKeyAgain /\ last.net /\ ~last.settled.threw /\ ~last.cleared)
            => /\ netCount' = netCount
               /\ call' = NoCall
               /\ ~last'.net
               /\ last'.settled = last.settled ]_vars

\* the second of two calls has returned the fetched value set without a
\* request
C4_Witness ==
    /\ nCalls = 2
    /\ netCount = 1
    /\ call = NoCall
    /\ last # NoCall
    /\ ~last.net
    /\ ~last.cleared
    /\ ~last.settled.threw
    /\ last.settled.value.concepts # <<>>

\* C5: a call that fails after it has issued its request leaves the cache
\* as it was, and the next call with the same identifier and version and
\* with credentials issues a new request.
C5_NoNegativeCaching ==
    [][ /\ (call # NoCall /\ call' = NoCall /\ last'.settled.threw)
            => cache' = cache
        /\ (SameKeyAgain /\ last.net /\ last.settled.threw)
            => /\ netCount' = netCount + 1
               /\ call' # NoCall ]_vars

\* the request of the second call is in flight after the first call, for
\* the same key, has failed at the service
C5_Witness ==
    /\ nCalls = 2
    /\ netCount = 2
    /\ last # NoCall
    /\ last.net
    /\ last.settled.threw
    /\ call # NoCall
    /\ call.id = last.id
    /\ call.version = last.version
    /\ call.key \notin DOMAIN cache

\* a step that makes a call without username or without password
CallWithoutCredentials ==
    /\ nCalls' = nCalls + 1
    /\ (Made.username = "" \/ Made.password = "")

\* the call just made has failed without a request
RejectedAtOnce ==
    /\ call' = NoCall
    /\ netCount' = netCount
    /\ ~last'.net
    /\ last'.settled.threw

\* C16 as stated: every call without username or without password fails,
\* and issues no request.
C16_MissingCredentialsRejected ==
    [][ CallWithoutCredentials => RejectedAtOnce ]_vars

\* C16: a call without username or without password issues no request; it
\* fails when the cache has no entry for its key, and returns the cached
\* result when the cache has one.
C16_MissingCredentialsRejectedOnMiss ==
    [][ CallWithoutCredentials =>
            /\ netCount' = netCount
            /\ call' = NoCall
            /\ Made.key \notin DOMAIN cache => RejectedAtOnce
            /\ Made.key \in DOMAIN cache =>
                    last'.settled = Returned(cache[Made.key]) ]_vars

\* a call without password has failed before any request was issued
C16_Witness ==
    /\ last # NoCall
    /\ call = NoCall
    /\ last.username # ""
    /\ last.password = ""
    /\ last.settled.threw
    /\ ~last.net
    /\ netCount = 0

\* a step of clearCache
Cleared ==
    /\ cache' = EmptyCache
    /\ UNCHANGED <<call, nCalls, netCount, stats, batch>>

\* C17: every step of retrieveValueSet, retrieveMultipleValueSets and
\* getCacheStats, returning or throwing, keeps every key of the cache; only
\* clearCache removes keys, and it removes them all, so that the next
\* getCacheStats reports size 0 and no keys.
C17_NeverEvicts ==
    [][ /\ (DOMAIN cache \subseteq DOMAIN cache') \/ Cleared
        /\ (last' # NoCall /\ last'.cleared /\ last' # last
                /\ call' = call /\ nCalls' = nCalls) => cache' = EmptyCache
        /\ (cache = EmptyCache /\ stats' # stats)
                => stats' = [size |-> 0, keys |-> {}] ]_vars

\* a value set fetched by a batch call has stayed cached while a later
\* retrieveValueSet call failed at the service
C17_Witness ==
    /\ batch.pc = "done"
    /\ CacheKey("1.2", "") \in DOMAIN cache
    /\ last # NoCall
    /\ last.net
    /\ last.settled.threw
    /\ ~last.cleared

\* getCacheStats has reported an empty cache after clearCache removed the
\* entry of a fetched value set
C17_WitnessCleared ==
    /\ last # NoCall
    /\ last.net
    /\ ~last.settled.threw
    /\ last.cleared
    /\ cache = EmptyCache
    /\ stats = [size |-> 0, keys |-> {}]

\* the last call has settled after its request was answered with a body
RoundTrip == last # NoCall /\ last.net /\ last.answered

\* C18: a call whose request was answered with a body, whatever the body,
\* has returned a result, and until clearCache the cache holds that result
\* under the call's key identifier_version or identifier_latest.
C18_RoundTripCached ==
    RoundTrip =>
        /\ ~last.settled.threw
        /\ last.key = last.id \o "_" \o (IF last.version = "" THEN "latest"
                                         ELSE last.version)
        /\ ~last.cleared =>
                /\ last.key \in DOMAIN cache
                /\ cache[last.key] = last.settled.value

\* the round trips whose body reached the service as a string: each has
\* returned a result, which the cache holds until clearCache
C18_StringRoundTripCached ==
    (RoundTrip /\ last.settled.threw) =>
        /\ last.settled.error.code = "UNKNOWN_ERROR"
        /\ Includes(last.settled.error.message, "(reading 'substring')")

\* a body that is no XML has been cached as the PARSE_ERROR result
C18_WitnessCached ==
    /\ RoundTrip
    /\ ~last.settled.threw
    /\ last.key \in DOMAIN cache
    /\ cache[last.key].concepts[1].code = Str("PARSE_ERROR")

\* v is a value set result: metadata with its twelve fields, and a list of
\* concepts with code, code system, code system name and display name
WellFormedResult(v) ==
    /\ DOMAIN v = {"metadata", "concepts"}
    /\ DOMAIN v.metadata = DOMAIN EmptyMetadata
    /\ \A j \in 1..Len(v.concepts) :
            {"code", "codeSystem", "codeSystemName", "displayName"}
                \subseteq DOMAIN v.concepts[j]

\* C25: a settled retrieveValueSet call has returned a value set result
\* with metadata and concepts, or has thrown a VSACError that carries a
\* non-empty guidance list: the table's list for its kind, or the general
\* list for a kind the table does not have.  It has never resolved with
\* undefined.
C25_ResultOrGuidedError ==
    last # NoCall =>
        IF last.settled.threw
        THEN LET e == last.settled.error
             IN  /\ e.name = "VSACError"
                 /\ "guidance" \in DOMAIN e
                 /\ Len(e.guidance) > 0
                 /\ e.code \in DOMAIN GuidanceTable => e.guidance = GuidanceTable[e.code]
                 /\ e.code \notin DOMAIN GuidanceTable =>
                        e.guidance[1] = "Check the error message for specific details"
        ELSE WellFormedResult(last.settled.value)

\* a call without password has thrown an error of a kind the table does not
\* have, with the general guidance
C25_Witness ==
    /\ last # NoCall
    /\ last.password = ""
    /\ last.settled.threw
    /\ last.settled.error.code = "UNKNOWN_ERROR"
    /\ Len(last.settled.error.guidance) = 3

\* a call has thrown a rate-limit error with the table's guidance
C25_WitnessTable ==
    /\ last # NoCall
    /\ last.settled.threw
    /\ last.settled.error.code = "RATE_LIMIT"
    /\ last.settled.error.guidance[1] = "Wait 60 seconds before retrying"

\* C28: a retrieveValueSet call whose key the cache holds returns the
\* cached result and issues no request, whatever its username and password
\* are (empty ones included): the outcome is the one of a call with the
\* credentials "umls" and "apikey".
C28_HitIgnoresCredentials ==
    [][ (nCalls' = nCalls + 1 /\ Made.key \in DOMAIN cache) =>
            /\ netCount' = netCount
            /\ call' = NoCall
            /\ ~last'.net
            /\ last'.settled = Start(cache, Made.id, Made.version, "umls", "apikey").settled
            /\ last'.settled = Returned(cache[Made.key])
            /\ cache' = cache ]_vars

\* a value set fetched with credentials has been returned from the cache to
\* a call without username and password
C28_Witness ==
    /\ nCalls = 2
    /\ netCount = 1
    /\ call = NoCall
    /\ last # NoCall
    /\ last.username = "" /\ last.password = ""
    /\ ~last.net
    /\ ~last.settled.threw
    /\ last.key \in DOMAIN cache
    /\ last.settled.value = cache[last.key]

\* the pair a call is made for: its identifier and its version or "latest"
PairOf(c) == <<c.id, IF c.version # "" THEN c.version ELSE "latest">>

\* the step of a client's second call that settles it from the cache
SecondCallHit ==
    /\ nCalls = 1 /\ nCalls' = 2
    /\ last # NoCall /\ last' # last
    /\ ~last'.net /\ ~last'.settled.threw

\* C27: the cache key is one-to-one on (identifier, version or "latest"):
\* the second of two retrieveValueSet calls is answered from the cache
\* only when it is made for the pair of the first, so the result fetched
\* for one pair is never returned for another.
C27_KeyInjective ==
    [][SecondCallHit => PairOf(last') = PairOf(last)]_vars

\* the result fetched for ("1.2_v1", default version) has been returned
\* from the cache for ("1.2", "v1_latest")
C27_WitnessCollision ==
    /\ nCalls = 2 /\ last # NoCall
    /\ last.id = "1.2" /\ last.version = "v1_latest"
    /\ ~last.net /\ ~last.settled.threw
    /\ DOMAIN cache = {"1.2_v1_latest"}

(***************************************************************************)
(* Claims: parseVsacResponse (SpecParse)                                   *)
(***************************************************************************)

MetadataFields == DOMAIN EmptyMetadata

\* C6: for every string body, parseVsacResponse returns (it does not
\* throw) a record of exactly a metadata record and a list of concepts.
C6_ParseIsTotal ==
    (parsedOut # None /\ payload.type = "string") =>
        /\ ~parsedOut.threw
        /\ DOMAIN parsedOut.value = {"metadata", "concepts"}
        /\ DOMAIN parsedOut.value.metadata = MetadataFields
        /\ DOMAIN parsedOut.value.concepts = 1..Len(parsedOut.value.concepts)

\* a string body that the XML parser rejects has been given a result
C6_Witness ==
    /\ parsedOut # None
    /\ payload.type = "string"
    /\ payload.xml.threw
    /\ ~parsedOut.threw
    /\ Len(parsedOut.value.concepts) = 1
    /\ parsedOut.value.concepts[1].code = Str("PARSE_ERROR")
    /\ parsedOut.value.metadata.status = Str("ERROR")

(***************************************************************************)
(* Claims: handleVsacError (SpecCatch)                                     *)
(***************************************************************************)

Handled == errOut # None /\ errIn.response

KindOf401To429 ==
    /\ errIn.status = 401 => errOut.error.code = "AUTH_FAILED"
    /\ errIn.status = 403 => errOut.error.code = "ACCESS_FORBIDDEN"
    /\ errIn.status = 404 => errOut.error.code = "VALUESET_NOT_FOUND"
    /\ errIn.status = 429 => errOut.error.code = "RATE_LIMIT"

\* C7, as stated: a failure with a response is classified by its status:
\* 401, 403, 404 and 429 as authentication, access-forbidden, not-found and
\* rate-limit, and every status of 500..599 as service-unavailable.
C7_Every5xxUnavailable ==
    Handled =>
        /\ errOut.threw
        /\ KindOf401To429
        /\ errIn.status \in 500..599 => errOut.error.code = "SERVICE_UNAVAILABLE"

\* C7, amended: a failure with a response is classified by its status:
\* 401, 403, 404 and 429 as authentication, access-forbidden, not-found and
\* rate-limit, 500, 502 and 503 as service-unavailable, and every other
\* status, the other statuses of 500..599 included, as API_ERROR.
C7_StatusDeterminesKind ==
    Handled =>
        /\ errOut.threw
        /\ KindOf401To429
        /\ errIn.status \in {500, 502, 503} => errOut.error.code = "SERVICE_UNAVAILABLE"
        /\ errIn.status \notin {401, 403, 404, 429, 500, 502, 503}
              => errOut.error.code = "API_ERROR"
        /\ errOut.error.statusCode = errIn.status

\* a gateway timeout of the service has been classified
C7_Witness ==
    /\ Handled
    /\ errIn.status = 504
    /\ errOut.threw
    /\ errOut.error.code = "API_ERROR"

StatedKinds ==
    {"AUTH_FAILED", "ACCESS_FORBIDDEN", "VALUESET_NOT_FOUND", "RATE_LIMIT",
     "SERVICE_UNAVAILABLE", "NETWORK_ERROR", "TIMEOUT", "UNKNOWN_ERROR"}

\* C8, as stated: every failure is reported as an error of one of the eight
\* kinds authentication, access-forbidden, not-found, rate-limit,
\* service-unavailable, network, timeout, unknown.
C8_EightKinds ==
    errOut # None =>
        /\ errOut.threw
        /\ errOut.error.code \in StatedKinds

\* C8, amended: every failure is reported as an error of one of the ten
\* kinds: the eight stated ones, API_ERROR and INVALID_RESPONSE.
C8_TenKinds ==
    errOut # None =>
        /\ errOut.threw
        /\ errOut.error.name = "VSACError"
        /\ errOut.error.code \in StatedKinds \cup {"API_ERROR", "INVALID_RESPONSE"}

\* a bad request has been reported as an error of a kind outside the eight
C8_Witness ==
    /\ errOut # None
    /\ errIn.response
    /\ errIn.status = 400
    /\ errOut.threw
    /\ errOut.error.code \notin StatedKinds

(***************************************************************************)
(* Claims: extractValueSetIdentifiersFromCQL (SpecExtract)                 *)
(***************************************************************************)

\* the well-formed declarations of the text, in the order they stand in it
RECURSIVE Declared(_)
Declared(ds) ==
    IF ds = <<>> THEN <<>>
    ELSE (IF Head(ds).item.kind = "decl"
          THEN << [name |-> Head(ds).item.name, oid |-> Head(ds).item.oid] >>
          ELSE <<>>) \o Declared(Tail(ds))

DeclaredOids == {Declared(decls)[j].oid : j \in 1..Len(Declared(decls))}

\* C9: of a text with N well-formed declarations that reference K distinct
\* OIDs, the extractor returns N value sets and K OIDs, whether the
\* declarations stand on separate lines or on one line.
C9_CountsMatch ==
    extracted # None =>
        /\ Len(extracted.valuesets) = Len(Declared(decls))
        /\ Len(extracted.oids) = Cardinality(DeclaredOids)

\* C10: the references that are no well-formed declaration give nothing to
\* oids or valuesets, and the well-formed declarations of the same text are
\* extracted: valuesets holds the name and OID of each well-formed
\* declaration and nothing else, oids holds their OIDs and nothing else.
C10_OnlyDeclarations ==
    extracted # None =>
        /\ extracted.valuesets = Declared(decls)
        /\ Range(extracted.oids) = DeclaredOids
        /\ OtherOid \notin Range(extracted.oids)

\* C19: the extractor returns a result, with oids and valuesets, for every
\* input, and the empty result for null, undefined, the empty string and
\* every input that is no string.
C19_EmptyOnInvalidInput ==
    extracted # None =>
        /\ DOMAIN extracted = {"oids", "valuesets"}
        /\ (cql \in {Null, Undefined, Str("")} \/ ~IsStr(cql))
                => extracted = [oids |-> <<>>, valuesets |-> <<>>]

\* the extractor has returned the empty result for an array that holds a
\* declaration
C19_Witness ==
    /\ extracted = [oids |-> <<>>, valuesets |-> <<>>]
    /\ IsArr(cql)
    /\ cql.arr # <<>>

\* the extractor has returned the empty result for null
C19_WitnessNull ==
    /\ extracted = [oids |-> <<>>, valuesets |-> <<>>]
    /\ cql = Null

\* the positions of q that hold a value for the first time
FirstSeenAt(q) == {j \in 1..Len(q) : \A i \in 1..(j - 1) : q[i] # q[j]}

\* the values of q, each once, in the order of their first occurrence
FirstSeen(q) ==
    [n \in 1..Cardinality(FirstSeenAt(q)) |->
        q[CHOOSE j \in FirstSeenAt(q) :
                Cardinality({i \in FirstSeenAt(q) : i <= j}) = n]]

\* every item of the text stands on a line of its own
OnePerLine == \A j \in 1..Len(decls) : decls[j].sep = "\n"

\* C23: oids lists the OIDs of valuesets, each once, in the order of their
\* first occurrence there, so that both hold the same set of OIDs and
\* valuesets is at least as long as oids; for a text with one declaration
\* per line, valuesets lists the (name, oid) pairs of the declarations in
\* the order of the text.
C23_OidsAreValuesetOidsOnce ==
    extracted # None =>
        LET listed == [j \in 1..Len(extracted.valuesets) |-> extracted.valuesets[j].oid]
        IN  /\ extracted.oids = FirstSeen(listed)
            /\ Range(extracted.oids) = Range(listed)
            /\ Cardinality(Range(extracted.oids)) = Len(extracted.oids)
            /\ Len(extracted.valuesets) >= Len(extracted.oids)
            /\ (IsStr(cql) /\ OnePerLine) => extracted.valuesets = Declared(decls)

\* one OID declared under two names, on two lines, has given two value
\* sets and one OID
C23_Witness ==
    /\ extracted # None
    /\ OnePerLine
    /\ Len(extracted.valuesets) = 2
    /\ extracted.valuesets[1].name # extracted.valuesets[2].name
    /\ extracted.valuesets[1].oid = extracted.valuesets[2].oid
    /\ extracted.oids = << extracted.valuesets[1].oid >>

\* two OIDs have been listed in the order of their declarations
C23_WitnessOrder ==
    /\ extracted # None
    /\ Len(extracted.valuesets) = 2
    /\ extracted.oids = <<"42", "1.2">>

(***************************************************************************)
(* Claims: validateExtractedOids (SpecValidate)                            *)
(***************************************************************************)

\* t is groups of digits separated by single dots, with at least one dot
DottedOid(t) ==
    /\ Len(t) >= 3
    /\ \A j \in 1..Len(t) : CharAt(t, j) \in Digits \cup {"."}
    /\ \E j \in 1..Len(t) : CharAt(t, j) = "."
    /\ CharAt(t, 1) # "." /\ CharAt(t, Len(t)) # "."
    /\ \A j \in 1..(Len(t) - 1) : ~(CharAt(t, j) = "." /\ CharAt(t, j + 1) = ".")

IsDottedOid(v) == IsStr(v) /\ DottedOid(v.str)

IsAttribute(k) == Len(k) >= 2 /\ SubSeq(k, 1, 2) = "@_"
HasPrefix(k)   == Len(k) > 4 /\ SubSeq(k, 1, 4) = "ns0:"
Strip(k)       == IF HasPrefix(k) THEN SubSeq(k, 5, Len(k)) ELSE k

\* the parsed tree with the prefix taken off every element name
RECURSIVE Unprefixed(_)
Unprefixed(v) ==
    IF IsObj(v)
    THEN Obj([n \in {Strip(k) : k \in DOMAIN v.obj} |->
                Unprefixed(v.obj[CHOOSE k \in DOMAIN v.obj : Strip(k) = n])])
    ELSE IF IsArr(v) THEN Arr([j \in 1..Len(v.arr) |-> Unprefixed(v.arr[j])])
    ELSE v

\* the element names of a parsed tree
RECURSIVE ElementNames(_)
ElementNames(v) ==
    IF IsObj(v)
    THEN {k \in DOMAIN v.obj : ~IsAttribute(k)}
            \cup UNION {ElementNames(v.obj[k]) : k \in DOMAIN v.obj}
    ELSE IF IsArr(v) THEN UNION {ElementNames(v.arr[j]) : j \in 1..Len(v.arr)}
    ELSE {}

\* a string body that parses to a tree with the prefix on every element
\* name, and whose element names the normalizer reads in both forms (it
\* reads ValueSet without the prefix only)
PrefixedThroughout ==
    /\ payload # None
    /\ payload.type = "string"
    /\ ~payload.xml.threw
    /\ \A k \in ElementNames(payload.xml.value) : HasPrefix(k) /\ k # "ns0:ValueSet"

\* C12: a payload with the prefix on every element name and the payload
\* that differs from it by carrying the prefix on none are normalized to
\* the same result, for the element names the normalizer reads in both
\* forms.
C12_PrefixInsensitive ==
    (parsedOut # None /\ PrefixedThroughout) =>
        parsedOut = parseVsacResponse(XmlBody(Unprefixed(payload.xml.value)))

\* C12 for every element name the normalizer reads in at least one form,
\* ValueSet included
C12_PrefixInsensitiveAnyName ==
    (parsedOut # None /\ payload.type = "string" /\ ~payload.xml.threw
        /\ \A k \in ElementNames(payload.xml.value) : HasPrefix(k)) =>
        parsedOut = parseVsacResponse(XmlBody(Unprefixed(payload.xml.value)))

\* a payload with the prefix throughout, with status, purpose and two
\* concepts, has been normalized
C12_Witness ==
    /\ parsedOut # None
    /\ PrefixedThroughout
    /\ "ns0:Concept" \in ElementNames(payload.xml.value)
    /\ "ns0:Purpose" \in ElementNames(payload.xml.value)
    /\ ~parsedOut.threw
    /\ Len(parsedOut.value.concepts) = 2
    /\ parsedOut.value.metadata.status = Str("Active")
    /\ parsedOut.value.metadata.clinicalFocus = Str("Diabetes")

\* a string body that the XML parser has turned into a tree
Parsed == payload # None /\ payload.type = "string" /\ ~payload.xml.threw

\* C13: when the normalizer finds no value set in the parsed payload, it
\* returns metadata whose twelve fields are all null and exactly one
\* concept, the NO_VALUESET sentinel.
C13_NoValueSetSentinel ==
    (parsedOut # None /\ Parsed /\ ValueSetsOf(payload.xml.value) = <<>>) =>
        /\ ~parsedOut.threw
        /\ DOMAIN parsedOut.value.metadata = MetadataFields
        /\ \A f \in MetadataFields : parsedOut.value.metadata[f] = Null
        /\ parsedOut.value.concepts =
              << [code |-> Str("NO_VALUESET"), codeSystem |-> Str("N/A"),
                  codeSystemName |-> Str("VSAC"),
                  displayName |-> Str("No ValueSet found in response")] >>

\* a response root without any value-set element has been normalized
C13_Witness ==
    /\ parsedOut # None
    /\ Parsed
    /\ ElementNames(payload.xml.value) = {"ns0:RetrieveMultipleValueSetsResponse"}
    /\ ~parsedOut.threw
    /\ Len(parsedOut.value.concepts) = 1
    /\ parsedOut.value.concepts[1].code = Str("NO_VALUESET")
    /\ parsedOut.value.metadata.id = Null

\* the purpose fields written in a purpose text of the payloads
ExpectedPurpose(text) ==
    CASE text = "(Clinical Focus: Diabetes),(Data Element Scope: Dx),(Inclusion Criteria: All),(Exclusion Criteria: None)" ->
            [clinicalFocus |-> Str("Diabetes"), dataElementScope |-> Str("Dx"),
             inclusionCriteria |-> Str("All"), exclusionCriteria |-> Str("None")]
      [] text = "(Exclusion Criteria: None),(clinical focus:  Diabetes )" ->
            [clinicalFocus |-> Str("Diabetes"), dataElementScope |-> Null,
             inclusionCriteria |-> Null, exclusionCriteria |-> Str("None")]
      [] OTHER ->
            [clinicalFocus |-> Null, dataElementScope |-> Null,
             inclusionCriteria |-> Null, exclusionCriteria |-> Null]

\* the element of valueSet named name, with or without the prefix; null when
\* there is none
Element(valueSet, name) ==
    IF "ns0:" \o name \in DOMAIN valueSet.obj THEN valueSet.obj["ns0:" \o name]
    ELSE IF name \in DOMAIN valueSet.obj THEN valueSet.obj[name]
    ELSE Null

\* the first value set the normalizer finds has no concept list
FirstHasNoConceptList ==
    /\ Parsed
    /\ ValueSetsOf(payload.xml.value) # <<>>
    /\ Element(ValueSetsOf(payload.xml.value)[1], "ConceptList") \in {Null, Str("")}

\* C14: when the first value set has no concept list, the normalizer
\* returns the metadata of that value set (id, displayName and version from
\* its attributes, source, type, binding, status and revisionDate from its
\* elements, the four purpose fields from its Purpose text) and exactly one
\* concept, the EMPTY_VALUESET sentinel.
C14_EmptyValueSetSentinel ==
    (parsedOut # None /\ FirstHasNoConceptList) =>
        LET valueSet == ValueSetsOf(payload.xml.value)[1]
            metadata == parsedOut.value.metadata
            purpose  == ExpectedPurpose(IF Element(valueSet, "Purpose") = Null THEN ""
                                        ELSE Element(valueSet, "Purpose").str)
        IN  /\ ~parsedOut.threw
            /\ metadata.id = valueSet.obj["@_ID"]
            /\ metadata.displayName = valueSet.obj["@_displayName"]
            /\ metadata.version = valueSet.obj["@_version"]
            /\ metadata.source = Element(valueSet, "Source")
            /\ metadata.type = Element(valueSet, "Type")
            /\ metadata.binding = Element(valueSet, "Binding")
            /\ metadata.status = Element(valueSet, "Status")
            /\ metadata.revisionDate = Element(valueSet, "RevisionDate")
            /\ metadata.clinicalFocus = purpose.clinicalFocus
            /\ metadata.dataElementScope = purpose.dataElementScope
            /\ metadata.inclusionCriteria = purpose.inclusionCriteria
            /\ metadata.exclusionCriteria = purpose.exclusionCriteria
            /\ parsedOut.value.concepts =
                  << [code |-> Str("EMPTY_VALUESET"), codeSystem |-> Str("N/A"),
                      codeSystemName |-> Str("VSAC"),
                      displayName |-> Str("ValueSet exists but contains no concepts (may be retired)")] >>

\* a value set with status and purpose but without concept list has been
\* normalized
C14_Witness ==
    /\ parsedOut # None
    /\ FirstHasNoConceptList
    /\ ~parsedOut.threw
    /\ parsedOut.value.metadata.id = Str("1.2")
    /\ parsedOut.value.metadata.status = Str("Active")
    /\ parsedOut.value.metadata.dataElementScope = Str("Dx")
    /\ parsedOut.value.concepts[1].code = Str("EMPTY_VALUESET")

\* C15: when the XML parser throws on a string payload, or the traversal of
\* the parsed tree throws, the normalizer returns metadata with status
\* ERROR and displayName Parse Error (the other fields null) and exactly
\* one concept, the PARSE_ERROR sentinel, whose displayName ends with the
\* error's message.
C15_ParseErrorSentinel ==
    (parsedOut # None /\ payload.type = "string" /\ TryBlock(payload).threw) =>
        /\ ~parsedOut.threw
        /\ parsedOut.value.metadata.status = Str("ERROR")
        /\ parsedOut.value.metadata.displayName = Str("Parse Error")
        /\ \A f \in MetadataFields \ {"status", "displayName"} :
              parsedOut.value.metadata[f] = Null
        /\ parsedOut.value.concepts =
              << [code |-> Str("PARSE_ERROR"), codeSystem |-> Str("N/A"),
                  codeSystemName |-> Str("VSAC_PARSER"),
                  displayName |-> Str("XML parsing failed: "
                                        \o TryBlock(payload).error.message)] >>

\* a payload with an unclosed tag has been given the diagnostic result
C15_Witness ==
    /\ parsedOut # None
    /\ payload = BadXmlBody("Unclosed tag 'ns0:Concept'.")
    /\ ~parsedOut.threw
    /\ parsedOut.value.concepts[1].displayName =
          Str("XML parsing failed: Unclosed tag 'ns0:Concept'.")

\* the parsed tree with the prefix on every element name
Prefixed(v) == Relabel(v, [l \in Levels |-> TRUE])

\* a string body that parses to a tree of the element names that the
\* normalizer reads in both forms
ReadInBothForms ==
    /\ Parsed
    /\ "ValueSet" \notin {Strip(k) : k \in ElementNames(payload.xml.value)}

\* the value-set elements of the tree carry the prefix when the response
\* root does, and only then
ListAsRoot(tree) ==
    \A r \in DOMAIN tree.obj :
        IsObj(tree.obj[r]) =>
            \A k \in DOMAIN tree.obj[r].obj :
                ~IsAttribute(k) => (HasPrefix(k) <=> HasPrefix(r))

\* C21 as stated: a payload that carries the prefix on some levels and not
\* on others is normalized to the result of the payload with the prefix on
\* every level.
C21_MixedAsPrefixed ==
    (parsedOut # None /\ ReadInBothForms) =>
        parsedOut = parseVsacResponse(XmlBody(Prefixed(payload.xml.value)))

\* C21: a payload whose value-set elements are named in the form of the
\* response root, whatever the forms of the elements of the value sets, of
\* the concept lists and of the concept nodes, is normalized to the result
\* of the payload with the prefix on every level.
C21_MixedBelowListAsPrefixed ==
    (parsedOut # None /\ ReadInBothForms /\ ListAsRoot(payload.xml.value)) =>
        parsedOut = parseVsacResponse(XmlBody(Prefixed(payload.xml.value)))

\* a payload with prefixed root, value set and concept nodes and with
\* unprefixed Status, Purpose and ConceptList elements has been normalized
\* to its metadata and two concepts
C21_Witness ==
    /\ parsedOut # None
    /\ ReadInBothForms
    /\ ListAsRoot(payload.xml.value)
    /\ {"ns0:RetrieveMultipleValueSetsResponse", "ns0:DescribedValueSet",
        "Status", "Purpose", "ConceptList", "ns0:Concept"}
            \subseteq ElementNames(payload.xml.value)
    /\ ~parsedOut.threw
    /\ Len(parsedOut.value.concepts) = 2
    /\ parsedOut.value.metadata.status = Str("Active")
    /\ parsedOut.value.metadata.exclusionCriteria = Str("None")

\* a prefixed root holding an unprefixed value set has been normalized to
\* the NO_VALUESET result
C21_WitnessMixedRoot ==
    /\ parsedOut # None
    /\ ReadInBothForms
    /\ {"ns0:RetrieveMultipleValueSetsResponse", "DescribedValueSet"}
            \subseteq ElementNames(payload.xml.value)
    /\ ~parsedOut.threw
    /\ parsedOut.value.concepts[1].code = Str("NO_VALUESET")

\* the first value set the normalizer finds has a concept list
FirstHasConceptList ==
    /\ Parsed
    /\ ValueSetsOf(payload.xml.value) # <<>>
    /\ Element(ValueSetsOf(payload.xml.value)[1], "ConceptList") \notin {Null, Str("")}

\* the concept nodes of the first value set, in document order
NodesOfFirst ==
    LET nodes == Element(Element(ValueSetsOf(payload.xml.value)[1], "ConceptList"),
                         "Concept")
    IN  IF nodes = Null THEN <<>> ELSE IF IsArr(nodes) THEN nodes.arr ELSE <<nodes>>

\* node carries attribute a: the attribute is written, with a value
Carries(node, a) == a \in DOMAIN node.obj /\ node.obj[a] # Str("")

CarriesAllFour(node) ==
    \A a \in {"@_code", "@_codeSystem", "@_codeSystemName", "@_displayName"} :
        Carries(node, a)

\* C22: when the first value set has a concept list, the concepts returned
\* are the concept nodes that carry code, codeSystem, codeSystemName and
\* displayName (each written with a non-empty value), in document order,
\* with their four attributes and with codeSystemVersion when the node
\* carries it and null otherwise; the other nodes are left out, nothing is
\* thrown and no sentinel concept is added.
C22_CompleteNodesInOrder ==
    (parsedOut # None /\ FirstHasConceptList) =>
        LET kept == SelectSeq(NodesOfFirst, CarriesAllFour)
        IN  /\ ~parsedOut.threw
            /\ parsedOut.value.concepts =
                  [j \in 1..Len(kept) |->
                      [code              |-> kept[j].obj["@_code"],
                       codeSystem        |-> kept[j].obj["@_codeSystem"],
                       codeSystemName    |-> kept[j].obj["@_codeSystemName"],
                       codeSystemVersion |-> IF Carries(kept[j], "@_codeSystemVersion")
                                             THEN kept[j].obj["@_codeSystemVersion"]
                                             ELSE Null,
                       displayName       |-> kept[j].obj["@_displayName"]]]

\* of two concept nodes, the one with an empty display name has been left
\* out and the one without codeSystemVersion returned with null for it
C22_Witness ==
    /\ parsedOut # None
    /\ FirstHasConceptList
    /\ Len(NodesOfFirst) = 2
    /\ ~CarriesAllFour(NodesOfFirst[1])
    /\ "@_displayName" \in DOMAIN NodesOfFirst[1].obj
    /\ ~parsedOut.threw
    /\ Len(parsedOut.value.concepts) = 1
    /\ parsedOut.value.concepts[1].codeSystemVersion = Null
    /\ parsedOut.value.concepts[1].code = Str("E11.9")

\* a concept list whose only node has no code has given no concept at all
C22_WitnessNone ==
    /\ parsedOut # None
    /\ FirstHasConceptList
    /\ Len(NodesOfFirst) = 1
    /\ ~parsedOut.threw
    /\ parsedOut.value.concepts = <<>>

(***************************************************************************)
(* Claims: parsePurposeField (SpecPurpose)                                 *)
(***************************************************************************)

FieldOf(label) ==
    CASE label = "Clinical Focus" -> "clinicalFocus"
      [] label = "Data Element Scope" -> "dataElementScope"
      [] label = "Inclusion Criteria" -> "inclusionCriteria"
      [] OTHER -> "exclusionCriteria"

\* the segments of gs that carry label
Labeled(gs, label) == SelectSeq(gs, LAMBDA g : g.label = label)

\* the value of a segment as it is written, without the blanks around it
Written(g) == CASE g.value = " All " -> "All" [] g.value = " " -> "" [] OTHER -> g.value

\* C24: each of the four purpose fields is non-null exactly when the text
\* has a segment with the field's label (a parenthesized label, colon and
\* at least one character), wherever that segment stands; its value is the
\* value of the first such segment without the blanks around it, and it is
\* the value parsePurposeField gives for the text of the field's own
\* segments alone, so that no other segment changes it.
C24_PurposeFieldsIndependent ==
    purposeOut # None =>
        \A label \in PurposeLabels :
            LET own == Labeled(segments, label)
                f   == FieldOf(label)
            IN  /\ (purposeOut[f] # Null) <=> (own # <<>>)
                /\ own # <<>> => purposeOut[f] = Str(Written(own[1]))
                /\ purposeOut[f] = parsePurposeField(Str(RenderPurpose(own)))[f]

\* of a text that starts with an exclusion-criteria segment, goes on with
\* an unlabeled one and ends with a clinical-focus segment, these two
\* fields have been filled and the other two left null
C24_Witness ==
    /\ purposeOut # None
    /\ Len(segments) = 3
    /\ segments[1].label = "Exclusion Criteria"
    /\ segments[2].label = "Other"
    /\ segments[3].label = "Clinical Focus"
    /\ purposeOut.exclusionCriteria = Str("All")
    /\ purposeOut.clinicalFocus = Str("Diabetes")
    /\ purposeOut.dataElementScope = Null
    /\ purposeOut.inclusionCriteria = Null

(***************************************************************************)
(* Claims: the validation reports (SpecReport)                             *)
(***************************************************************************)

\* valid, invalid and extracted OIDs and the three counts of a report
PartsOf(r) ==
    IF r.by = "extractAndValidateValueSets"
    THEN [valid |-> r.out.value.validOids, invalid |-> r.out.value.invalidOids,
          all |-> Range(r.out.value.allExtracted),
          validCount |-> r.out.value.validCount,
          invalidCount |-> r.out.value.invalidCount,
          totalFound |-> r.out.value.totalFound]
    ELSE [valid |-> r.out.value.validOids, invalid |-> r.out.value.invalidOids,
          all |-> {r.out.value.extractedValueSets[j].oid :
                      j \in 1..Len(r.out.value.extractedValueSets)},
          validCount |-> r.out.value.summary.validOids,
          invalidCount |-> r.out.value.summary.invalidOids,
          totalFound |-> r.out.value.summary.totalFound]

C26_WitnessTool ==
    /\ report # None
    /\ report.by = "valueset-regex-extraction"
    /\ report.out.value.validOids = <<"1.2">>
    /\ report.out.value.invalidOids = <<"42">>
    /\ report.out.value.summary.totalFound = 2

\* the parse-nl-to-cql tool has answered with an error for a text with a
\* declaration
C26_WitnessNlTool ==
    /\ report # None
    /\ report.by = "parse-nl-to-cql"
    /\ report.out.threw
    /\ Declared(decls) # <<>>

\* the report of an extractAndValidateValueSets call on a text
Reported == report # None /\ report.by = "extractAndValidateValueSets"

\* t is one group of digits
BareInteger(t) == t # "" /\ \A j \in 1..Len(t) : CharAt(t, j) \in Digits

\* C29 as stated: validateExtractedOids accepts every OID that
\* extractValueSetIdentifiersFromCQL returns, and the invalid list of
\* extractAndValidateValueSets is empty.
C29_AllExtractedAccepted ==
    Reported =>
        /\ report.out.value.validOids = report.out.value.allExtracted
        /\ report.out.value.invalidOids = <<>>

\* C29: validateExtractedOids accepts every OID with a dot that
\* extractValueSetIdentifiersFromCQL returns; the invalid list of
\* extractAndValidateValueSets holds the extracted OIDs of one group of
\* digits, and nothing else.
C29_ExtractedWithDotAccepted ==
    Reported =>
        /\ \A o \in Range(report.out.value.allExtracted) :
                DottedOid(o) \/ BareInteger(o)
        /\ Range(report.out.value.validOids) =
                {o \in Range(report.out.value.allExtracted) : DottedOid(o)}
        /\ Range(report.out.value.invalidOids) =
                {o \in Range(report.out.value.allExtracted) : BareInteger(o)}

\* of a text declaring urn:oid:42 and then urn:oid:1.2, both were extracted
\* and 42 is reported invalid
C29_Witness ==
    /\ Reported
    /\ report.out.value.allExtracted = <<"42", "1.2">>
    /\ report.out.value.validOids = <<"1.2">>
    /\ report.out.value.invalidOids = <<"42">>

(***************************************************************************)
(* Claims: retrieveMultipleValueSets when every request settles            *)
(* (FairSpecBatch)                                                         *)
(***************************************************************************)

\* the call has returned, every window started and completed
Returned_All ==
    /\ batch.pc = "done"
    /\ batch.i >= Len(batch.ids)
    /\ batch.started = 1..Len(batch.ids)
    /\ batch.settled = 1..Len(batch.ids)
    /\ DOMAIN batch.results = Range(batch.ids)

\* an entry of results is still there, unchanged, after the step
Kept(o) == o \in DOMAIN batch'.results /\ batch'.results[o] = batch.results[o]

\* the step completes a window that holds the OID o
CompletesWindowWith(o) ==
    /\ batch.pc = "await"
    /\ AllSettled(batch.slots)
    /\ batch'.i = batch.i + concurrency
    /\ \E k \in 1..Len(batch.slots) : batch.slots[k].oid = o

\* C30 as stated, its second half: no step changes an entry that results
\* holds for a completed window.
C30_RecordedEntriesNeverChange ==
    [][\A o \in DOMAIN batch.results : Kept(o)]_vars

\* C30: when every request settles, a retrieveMultipleValueSets call
\* returns, with every window started and completed; and an entry recorded
\* for a completed window is changed only when a later window that holds
\* the same OID again completes, never while a request is pending.
C30_BatchReturns ==
    /\ (batch.pc # "idle") ~> Returned_All
    /\ [][\A o \in DOMAIN batch.results : Kept(o) \/ CompletesWindowWith(o)]_vars

\* a call on four OIDs has returned after two windows, the first of which
\* had a failing request
C30_Witness ==
    /\ batch.pc = "done"
    /\ Len(batch.ids) = 4
    /\ batch.i = 6
    /\ 1 \in batch.failed
    /\ 4 \in batch.settled

=============================================================================
